---- MODULE Spec2Model ----
(***************************************************************************)
(* A model of the half_orm relation engine (src/half_orm/relation.py) and  *)
(* of the Field class it drives (src/halfORM/field.py).                    *)
(*                                                                         *)
(* Python objects live in a heap (the sequence heap): the index of a       *)
(* relation in it is its id().  Strings model Python scalars; the two      *)
(* sentinels None and NULL are the strings "None" and "NULL".  A SQL       *)
(* statement is the sequence of the pieces the code interpolates into its  *)
(* f-strings, so that an interpolated caller string is one token.          *)
(***************************************************************************)
EXTENDS Integers, Sequences, FiniteSets, TLC

VARIABLES heap, tables, ncur, faults, last

vars == <<heap, tables, ncur, faults, last>>

(***************************************************************************)
(* Bounds of the model.                                                    *)
(***************************************************************************)
MaxRel == 3
MaxPartners == 1
MaxCursors == 4
MaxFaults == 2
MaxJoinDepth == MaxRel + MaxPartners

(***************************************************************************)
(* The database schema of the test suite, reduced to two relations of two  *)
(* columns each: actor.person and blog.post, post referencing person.      *)
(***************************************************************************)
Classes == {"person", "post"}

Cols(cls) == IF cls = "person" THEN <<"first_name", "last_name">>
                               ELSE <<"title", "author_last_name">>

Range(s) == {s[i] : i \in DOMAIN s}

ColSet(cls) == Range(Cols(cls))

Vals == {"a", "b"}

Rows(cls) == [ColSet(cls) -> Vals]

PyNone == "None"
NULL == "NULL"

(* A Python value handed to a field: a scalar, or a tuple of scalars. *)
Scalar(s) == [tuple |-> FALSE, elts |-> <<s>>]
Tuple(t) == [tuple |-> TRUE, elts |-> t]
IsNone(v) == ~v.tuple /\ v.elts[1] = PyNone

(***************************************************************************)
(* Field (src/halfORM/field.py).  relation.py calls it through _set,       *)
(* is_set, _comp, value and _where_repr.                                   *)
(***************************************************************************)
FieldInit == [value |-> PyNone, comp |-> "=", is_set |-> FALSE, unaccent |-> FALSE]

(* Field.__set__: the new field, or ok = FALSE when an assert fails. *)
Field_set(f, v) ==
    IF IsNone(v) THEN [ok |-> TRUE, f |-> f]
    ELSE IF v.tuple /\ Len(v.elts) # 2 THEN [ok |-> FALSE, f |-> f]
    ELSE LET value == v.elts[1]
             comp0 == IF v.tuple THEN v.elts[2] ELSE PyNone
             comp1 == IF value = NULL /\ comp0 = PyNone THEN "is" ELSE comp0
         IN IF value = NULL
            THEN IF comp1 = "is" \/ comp1 = "is not"
                 THEN [ok |-> TRUE,
                       f |-> [f EXCEPT !.value = value, !.comp = comp1, !.is_set = TRUE]]
                 ELSE [ok |-> FALSE, f |-> f]
            ELSE [ok |-> TRUE,
                  f |-> [f EXCEPT !.value = value,
                                  !.comp = IF comp1 = PyNone THEN "=" ELSE comp1,
                                  !.is_set = TRUE]]

(* Field._praf: the column, aliased in a select and quoted otherwise. *)
Field_praf(name, query, id_) ==
    IF query = "select" THEN <<"r" \o ToString(id_), ".", name>>
                        ELSE <<"\"", name, "\"">>

(* Field.where_repr: the values of the model are scalars, so the any(%s)
   form of a list value is not produced. *)
Field_where_repr(f, name, query, id_) ==
    IF ~f.unaccent
    THEN Field_praf(name, query, id_) \o <<f.comp, "%s">>
    ELSE <<"unaccent(">> \o Field_praf(name, query, id_) \o <<")", f.comp, "unaccent(", "%s", ")">>

(***************************************************************************)
(* Relation (src/half_orm/relation.py).                                    *)
(*   fields        _ho_fields, by column name                              *)
(*   join_to       _ho_join_to, the dict as a sequence of <<fkey, rel>>    *)
(*                 in insertion order; an fkey is <<owner id, name>>       *)
(*   op, left, right   the _SetOperators node (op "" is None, right 0 is   *)
(*                 None)                                                   *)
(*   select_params a key that is absent holds "None"                       *)
(*   id_cast       0 is None                                               *)
(*   attrs         the attributes added to the object, as <<name, value>>  *)
(*   frozen        __isfrozen, as __init__ leaves it                       *)
(*   iter          the generator of _ho_select that is being iterated, if  *)
(*                 any: the cursor it fetches from, the rows its statement *)
(*                 selected (want), those it has yielded (got), those the  *)
(*                 cursor still holds (pending); dry when the cursor has   *)
(*                 since executed a statement that returns no rows         *)
(***************************************************************************)
NoIter == [open |-> FALSE, cursor |-> 0, want |-> <<>>, got |-> <<>>, pending |-> <<>>,
           dry |-> FALSE]

NoParams == [distinct |-> PyNone, order_by |-> PyNone, limit |-> PyNone, offset |-> PyNone]

Qrn(cls) == IF cls = "person" THEN "\"actor\".\"person\"" ELSE "\"blog\".\"post\""

(* The names of the foreign keys of a class (the Metadata service). *)
FKeyNames(cls) == IF cls = "person" THEN {"_post"} ELSE {"author"}

(* _ho_id *)
_ho_id(h, r) == IF h[r].id_cast # 0 THEN h[r].id_cast ELSE r

(* __get_set_fields, as the column names in _ho_fields order *)
get_set_fields(rel) == SelectSeq(Cols(rel.cls), LAMBDA c : rel.fields[c].is_set)

(* __to_dict_val_comp: the keyword arguments {name: (comp, value)} *)
to_dict_val_comp(rel) ==
    [i \in 1..Len(get_set_fields(rel)) |->
        LET c == get_set_fields(rel)[i]
        IN <<c, Tuple(<<rel.fields[c].comp, rel.fields[c].value>>)>>]

(* _ho_dict is not used by the operations modelled. *)

RECURSIVE JoinStr(_, _)
(* sep.join(parts) over token sequences *)
JoinStr(parts, sep) ==
    IF parts = <<>> THEN <<>>
    ELSE IF Len(parts) = 1 THEN parts[1]
    ELSE parts[1] \o sep \o JoinStr(Tail(parts), sep)

(* "not (...)" around the predicate of a negated relation *)
Negated(neg, pred) == IF neg THEN <<"not (">> \o pred \o <<")">> ELSE pred

(* __where_repr, set_ being the fields that are set *)
where_repr_of(rel, set_, query_type, rel_id_) ==
    Negated(rel.neg,
            <<"(">>
            \o (IF set_ = <<>> THEN <<"1 = 1">>
                ELSE JoinStr([i \in 1..Len(set_) |->
                                Field_where_repr(rel.fields[set_[i]], set_[i], query_type, rel_id_)],
                             <<"and">>))
            \o <<")">>)

where_repr(rel, query_type, rel_id_) ==
    where_repr_of(rel, get_set_fields(rel), query_type, rel_id_)

(* the values of the fields that are set, in _ho_fields order *)
set_values(rel, set_) == [i \in 1..Len(set_) |-> rel.fields[set_[i]].value]

(* __walk_op on a node whose operands have been walked (l, rt) *)
walk_node(rel, l, rt) ==
    [out |-> Negated(rel.neg,
                     <<"(">> \o l.out
                     \o (IF rel.right # 0 THEN <<rel.op>> \o rt.out ELSE <<>>) \o <<")">>),
     fields |-> l.fields \o rt.fields]

RECURSIVE walk_op(_, _, _, _)
(* __walk_op: [out, fields]; fields are the values bound, in order.  The
   operands are read from the heap as they are when the tree is walked. *)
walk_op(h, r, rel_id_, query_type) ==
    IF h[r].op # ""
    THEN LET sub == [c \in {h[r].left, h[r].right} \ {0} |-> walk_op(h, c, rel_id_, query_type)]
         IN walk_node(h[r], sub[h[r].left],
                      IF h[r].right # 0 THEN sub[h[r].right]
                      ELSE [out |-> <<>>, fields |-> <<>>])
    ELSE [out |-> where_repr(h[r], query_type, rel_id_),
          fields |-> set_values(h[r], get_set_fields(h[r]))]

(* __where_args on the tree walked (w): what, where and the values *)
where_args_of(alias, args, w) ==
    [what |-> IF args = <<>> THEN <<alias, ".*">>
              ELSE JoinStr([i \in 1..Len(args) |-> <<alias, ".", args[i]>>], <<",">>),
     where |-> IF w.out = <<"(", ")">> THEN <<"(1 = 1)">> ELSE w.out,
     values |-> w.fields]

where_args(h, r, query_type, args) ==
    where_args_of("r" \o ToString(_ho_id(h, r)), args,
                  walk_op(h, r, _ho_id(h, r), query_type))

(***************************************************************************)
(* Foreign keys.  half_orm/fkey.py is not part of the sources: the join    *)
(* predicate, the binding of a partner and the values a bound key brings   *)
(* to insert, update and delete follow the specification (4.1, 4.3).       *)
(***************************************************************************)
(* The class a foreign key leads to. *)
FKeyTarget(name) == IF name = "_post" THEN "post" ELSE "person"

(* The column of the owning class and the column of the target class. *)
FKeySource(name) == IF name = "_post" THEN "last_name" ELSE "author_last_name"
FKeyDest(name) == IF name = "_post" THEN "author_last_name" ELSE "last_name"

(* fkey._join_query(self): r<parent>.src = r<child>.tgt *)
FKey_join_query(h, fkey, parent, child) ==
    <<"(", "r" \o ToString(_ho_id(h, parent)), ".", FKeySource(fkey[2]), "=",
      "r" \o ToString(_ho_id(h, child)), ".", FKeyDest(fkey[2]), ")">>

(* __sql_id *)
sql_id(h, r) == <<Qrn(h[r].cls), "as", "r" \o ToString(_ho_id(h, r))>>

(* list.insert(i, x) of Python, i counted from 0 *)
ListInsert(l, i, x) ==
    IF i >= Len(l) THEN Append(l, x)
    ELSE SubSeq(l, 1, i) \o <<x>> \o SubSeq(l, i + 1, Len(l))

(* the body of the loop of __get_from once fk_rel.__get_from(orig_rel, deja_vu)
   has returned st1: the join and its predicate go to places 1 and 2 of
   __sql_query, the conditions of fk_rel to its end *)
get_from_join(h, self, fkey, fk_rel, st1, w) ==
    IF st1.err THEN st1
    ELSE [st1 EXCEPT
            !.seen = @ \cup {<<_ho_id(h, fk_rel), fk_rel, fkey>>},
            !.sq = Append(ListInsert(ListInsert(@, 1, <<"join">> \o sql_id(h, fk_rel) \o <<"on">>),
                                     2, FKey_join_query(h, fkey, self, fk_rel)),
                          <<"and">> \o w.where),
            !.sv = @ \o w.values]

(* the test on deja_vu that skips a partner *)
get_from_skip(id, fk_rel, fkey, orig, st) ==
    id \in st.keys /\ (<<id, fk_rel, fkey>> \in st.seen \/ fk_rel = orig)

RECURSIVE get_from(_, _, _, _, _)
RECURSIVE get_from_items(_, _, _, _, _, _)
(* __get_from, the loop over self._ho_join_to.  st holds the __sql_query and
   __sql_values of orig_rel and deja_vu (keys: the ids, seen: the pairs);
   st.err is a RecursionError: Python gives up where fuel runs out.  The
   second call, fk_rel.__get_from(self._ho_id), writes fk_rel's own
   __sql_query only, which fk_rel resets before it reads it. *)
get_from_items(h, self, orig, items, st, fuel) ==
    IF items = <<>> \/ st.err THEN st
    ELSE get_from_items(h, self, orig, Tail(items),
            IF get_from_skip(_ho_id(h, items[1][2]), items[1][2], items[1][1], orig, st) THEN st
            ELSE IF fuel = 0 THEN [st EXCEPT !.err = TRUE]
            ELSE get_from_join(h, self, items[1][1], items[1][2],
                    get_from(h, items[1][2], orig,
                             [st EXCEPT !.keys = @ \cup {_ho_id(h, items[1][2])}], fuel - 1),
                    where_args(h, items[1][2], "select", <<>>)),
            fuel)

get_from(h, self, orig, st, fuel) ==
    get_from_items(h, self, orig, h[self].join_to, st, fuel)

(* a join fragment that occurs earlier in the list becomes "and" *)
RemoveDuplicates(sq) ==
    [i \in 1..Len(sq) |->
        IF sq[i] # <<>> /\ sq[i][1] = "join" /\ \E j \in 1..(i - 1) : sq[j] = sq[i]
        THEN <<"and">> ELSE sq[i]]

(* __get_query: the pieces the query template is formatted with, values (the
   values of the fields of the WHERE tree) and __sql_values (of the joins);
   w is what __where_args returned, st what __get_from left *)
get_query_of(only, w, st) ==
    [what |-> w.what,
     only |-> IF only THEN <<"only">> ELSE <<>>,
     from |-> JoinStr(RemoveDuplicates(st.sq), <<>>),
     where |-> <<"where">> \o w.where,
     values |-> w.values,
     sql_values |-> st.sv,
     err |-> st.err]

get_query(h, r, args) ==
    get_query_of(h[r].only,
                 where_args(h, r, "select", args),
                 get_from(h, r, r,
                          [sq |-> <<sql_id(h, r)>>, sv |-> <<>>, keys |-> {_ho_id(h, r)},
                           seen |-> {}, err |-> FALSE], MaxJoinDepth))

(* a variant that binds the values of the WHERE tree before those of the joins *)
prep_select_where_first(q, p) ==
    [text |-> <<"select">>
              \o (IF p.distinct # PyNone THEN <<p.distinct>> ELSE <<>>)
              \o q.what \o <<"from">> \o q.only \o q.from \o q.where
              \o (IF p.order_by # PyNone THEN <<"order by", p.order_by>> ELSE <<>>)
              \o (IF p.limit # PyNone THEN <<"limit", p.limit>> ELSE <<>>)
              \o (IF p.offset # PyNone THEN <<"offset", p.offset>> ELSE <<>>),
     values |-> q.values \o q.sql_values,
     err |-> q.err]

(* _ho_prep_select on the pieces q, with the select parameters p *)
prep_select_of(q, p) ==
    [text |-> <<"select">>
              \o (IF p.distinct # PyNone THEN <<p.distinct>> ELSE <<>>)
              \o q.what \o <<"from">> \o q.only \o q.from \o q.where
              \o (IF p.order_by # PyNone THEN <<"order by", p.order_by>> ELSE <<>>)
              \o (IF p.limit # PyNone THEN <<"limit", p.limit>> ELSE <<>>)
              \o (IF p.offset # PyNone THEN <<"offset", p.offset>> ELSE <<>>),
     values |-> q.sql_values \o q.values,
     err |-> q.err]

(* _ho_prep_select: [text, values, err] *)
_ho_prep_select(h, r, args) == prep_select_of(get_query(h, r, args), h[r].select_params)

(* the statement of __len__, and of _ho_is_empty with limit1, on the pieces q *)
count_query_of(q, limit1) ==
    [text |-> <<"select", "count(distinct">> \o q.what \o <<")", "from">>
              \o q.only \o q.from \o q.where
              \o (IF limit1 THEN <<"limit 1">> ELSE <<>>),
     values |-> q.sql_values \o q.values,
     err |-> q.err]

count_query(h, r, limit1) == count_query_of(get_query(h, r, <<>>), limit1)

(***************************************************************************)
(* The database (the Executor): what PostgreSQL answers to the statements  *)
(* above.  A predicate is evaluated on the tree it was rendered from.      *)
(***************************************************************************)
(* col comp %s on a NOT NULL column holding v *)
FieldValid(f) ==
    \/ f.comp \in {"=", "!="} /\ f.value \notin {NULL, PyNone}
    \/ f.comp \in {"is", "is not"} /\ f.value = NULL

FieldSat(f, v) ==
    CASE f.comp = "=" -> v = f.value
      [] f.comp = "!=" -> v # f.value
      [] f.comp = "is" -> FALSE
      [] OTHER -> TRUE

(* the predicate of one leaf: every set field, on the columns of cls *)
LeafValid(rel, cls) ==
    \A c \in ColSet(rel.cls) :
        rel.fields[c].is_set => c \in ColSet(cls) /\ FieldValid(rel.fields[c])

LeafSat(rel, row) ==
    LET s == \A c \in ColSet(rel.cls) : rel.fields[c].is_set => FieldSat(rel.fields[c], row[c])
    IN IF rel.neg THEN ~s ELSE s

RECURSIVE TreeValid(_, _, _)
TreeValid(h, r, cls) ==
    IF h[r].op # ""
    THEN TreeValid(h, h[r].left, cls) /\ (h[r].right # 0 => TreeValid(h, h[r].right, cls))
    ELSE LeafValid(h[r], cls)

RECURSIVE Sat(_, _, _)
(* the WHERE of __walk_op on a row of the root *)
Sat(h, r, row) ==
    LET rel == h[r] IN
    IF rel.op # ""
    THEN LET l == Sat(h, rel.left, row)
             rt == IF rel.right = 0 THEN TRUE ELSE Sat(h, rel.right, row)
             s == CASE rel.right = 0 -> l
                    [] rel.op = "and" -> l /\ rt
                    [] rel.op = "or" -> l \/ rt
                    [] OTHER -> l /\ ~rt
         IN IF rel.neg THEN ~s ELSE s
    ELSE LeafSat(rel, row)

RECURSIVE JoinValid(_, _, _, _)
(* the joins of __get_from are well formed: each key joins the class it
   belongs to with the class it leads to *)
JoinValid(h, self, orig, fuel) ==
    \A i \in DOMAIN h[self].join_to :
        LET fkey == h[self].join_to[i][1]
            fk_rel == h[self].join_to[i][2]
        IN fk_rel = orig \/ fuel = 0 \/
           /\ fkey[2] \in FKeyNames(h[self].cls)
           /\ h[fk_rel].cls = FKeyTarget(fkey[2])
           /\ TreeValid(h, fk_rel, h[fk_rel].cls)
           /\ JoinValid(h, fk_rel, orig, fuel - 1)

RECURSIVE JoinSat(_, _, _, _, _, _)
(* a row of self has, for each join of __get_from, a partner row *)
JoinSat(h, T, self, row, orig, fuel) ==
    \A i \in DOMAIN h[self].join_to :
        LET fkey == h[self].join_to[i][1]
            fk_rel == h[self].join_to[i][2]
        IN fk_rel = orig \/ fuel = 0 \/
           \E p \in T[h[fk_rel].cls] :
                /\ row[FKeySource(fkey[2])] = p[FKeyDest(fkey[2])]
                /\ Sat(h, fk_rel, p)
                /\ JoinSat(h, T, fk_rel, p, orig, fuel - 1)

(* the statement of a select or a count is one PostgreSQL accepts *)
QueryValid(h, r) ==
    TreeValid(h, r, h[r].cls) /\ JoinValid(h, r, r, MaxJoinDepth)

(* the rows a select or a count on r designates *)
Matching(h, T, r) ==
    {row \in T[h[r].cls] : Sat(h, r, row) /\ JoinSat(h, T, r, row, r, MaxJoinDepth)}

RECURSIVE SetToSeq(_)
(* the order in which PostgreSQL returns a set of rows *)
SetToSeq(S) ==
    IF S = {} THEN <<>>
    ELSE LET x == CHOOSE y \in S : TRUE IN <<x>> \o SetToSeq(S \ {x})

(* the integer an argument of limit or offset denotes, -1 if none *)
NatOf(s) == CASE s = "0" -> 0 [] s = "1" -> 1 [] s = "2" -> 2 [] OTHER -> -1

(***************************************************************************)
(* Execution.  faults is what the connection will do to the next attempts  *)
(* to execute a statement, whatever the statement: an exception name per   *)
(* attempt, "" for none; without a fault the database decides (dberr, ""   *)
(* for success).                                                           *)
(***************************************************************************)
ConnErrors == {"OperationalError", "InterfaceError"}

Event(ev, cursor, exc) == [ev |-> ev, cursor |-> cursor, exc |-> exc]

(* how one attempt ends: the fault the connection has in store for it, or
   else what the database answers *)
Attempt(fl, dberr) == IF fl # <<>> /\ Head(fl) # "" THEN Head(fl) ELSE dberr

Rest(fl) == IF fl # <<>> THEN Tail(fl) ELSE fl

(* a variant that makes a second attempt after any failure *)
execute_retry_any(cursor, n, fl, dberr) ==
    IF Attempt(fl, dberr) # ""
    THEN [events |-> <<Event("execute", cursor, Attempt(fl, dberr)), Event("ping", 0, ""),
                       Event("cursor", n + 1, ""),
                       Event("execute", n + 1, Attempt(Rest(fl), dberr))>>,
          cursor |-> n + 1, n |-> n + 1, fl |-> Rest(Rest(fl)),
          exc |-> Attempt(Rest(fl), dberr)]
    ELSE [events |-> <<Event("execute", cursor, Attempt(fl, dberr))>>,
          cursor |-> cursor, n |-> n, fl |-> Rest(fl), exc |-> Attempt(fl, dberr)]

(* __execute on the cursor of the relation; n is the number of cursors the
   connection has handed out (self._model.ping() is code of model.py, it is
   taken to return). *)
execute(cursor, n, fl, dberr) ==
    IF Attempt(fl, dberr) \in ConnErrors
    THEN [events |-> <<Event("execute", cursor, Attempt(fl, dberr)), Event("ping", 0, ""),
                       Event("cursor", n + 1, ""),
                       Event("execute", n + 1, Attempt(Rest(fl), dberr))>>,
          cursor |-> n + 1, n |-> n + 1, fl |-> Rest(Rest(fl)),
          exc |-> Attempt(Rest(fl), dberr)]
    ELSE [events |-> <<Event("execute", cursor, Attempt(fl, dberr))>>,
          cursor |-> cursor, n |-> n, fl |-> Rest(fl), exc |-> Attempt(fl, dberr)]

(* What an operation leaves: the heap, the tables, the cursors handed out,
   the faults left; how it ended (status "returned" or "raised", exc) and
   what it returned (ret names the kind: "None", "obj", "int", "bool",
   "row", "rows"; msg is the message of the exception); the attempts to
   execute (events) and the statements (sql, one [text, values] per call of
   __execute). *)
Outcome(h, T, n, fl, status, exc, ret, val, events, sql) ==
    [h |-> h, T |-> T, n |-> n, fl |-> fl, status |-> status, exc |-> exc,
     ret |-> ret, obj |-> val.obj, count |-> val.count, flag |-> val.flag,
     rows |-> val.rows, msg |-> val.msg, events |-> events, sql |-> sql]

NoVal == [obj |-> 0, count |-> -1, flag |-> FALSE, rows |-> <<>>, msg |-> <<>>]

Raised(h, T, n, fl, exc, events, sql) ==
    Outcome(h, T, n, fl, "raised", exc, "None", NoVal, events, sql)

Stmt(text, values) == [text |-> text, values |-> values]

RECURSIVE is_set_rec(_, _, _)
(* _ho_is_set: [v, err]; err is the RecursionError of a cycle of join_to *)
is_set_rec(h, r, fuel) ==
    LET rel == h[r]
        subs == [i \in DOMAIN rel.join_to |->
                    IF fuel = 0 THEN [v |-> FALSE, err |-> TRUE]
                    ELSE is_set_rec(h, rel.join_to[i][2], fuel - 1)]
        joined_to == \E i \in DOMAIN subs : subs[i].v
    IN [v |-> joined_to \/ rel.op # "" \/ rel.neg
              \/ \E c \in ColSet(rel.cls) : rel.fields[c].is_set,
        err |-> \E i \in DOMAIN subs : subs[i].err]

(* a variant that takes every relation for constrained *)
_ho_is_set_always(h, r) == [v |-> TRUE, err |-> FALSE]

_ho_is_set(h, r) == is_set_rec(h, r, MaxJoinDepth)

(* __add_returning *)
add_returning(query, args) ==
    IF args # <<>> THEN query \o <<"returning">> \o JoinStr([i \in DOMAIN args |-> <<args[i]>>], <<",">>)
    ELSE query

(* fkey._fkey_prep_select() and fkey.values()[0] for the keys own of a
   relation that are bound to a partner, firsts being the rows of each
   partner: the column of the relation and the value the first row of the
   partner gives it; err is the IndexError of a partner without rows. *)
FKey_prep_of(own, firsts) ==
    [fields |-> [i \in DOMAIN own |-> <<"\"", FKeySource(own[i][1][2]), "\"">>],
     cols |-> [i \in DOMAIN own |-> FKeySource(own[i][1][2])],
     values |-> [i \in DOMAIN own |->
                   IF firsts[i] = <<>> THEN PyNone
                   ELSE firsts[i][1][FKeyDest(own[i][1][2])]],
     err |-> \E i \in DOMAIN own : firsts[i] = <<>>]

FKey_prep_own(h, T, own) ==
    FKey_prep_of(own, [i \in DOMAIN own |-> SetToSeq(Matching(h, T, own[i][2]))])

FKey_prep(h, T, r) ==
    FKey_prep_own(h, T, SelectSeq(h[r].join_to, LAMBDA it : it[1][1] = r))

(* __what, set_ being the fields that are set and fk the bound foreign keys *)
what_of(rel, set_, fk) ==
    [fields_names |-> [i \in DOMAIN set_ |-> <<"\"", set_[i], "\"">>],
     values |-> [i \in DOMAIN set_ |-> rel.fields[set_[i]].value],
     fk_fields |-> fk.fields,
     fk_cols |-> fk.cols,
     fk_query |-> [i \in DOMAIN fk.values |-> <<"%s">>],
     fk_values |-> fk.values,
     err |-> fk.err]

what(h, T, r) == what_of(h[r], get_set_fields(h[r]), FKey_prep(h, T, r))

(* the fk_where of __fkey_where *)
fk_where_of(w) ==
    JoinStr([i \in DOMAIN w.fk_fields |->
                <<"(">> \o w.fk_fields[i] \o <<")", "in", "(">> \o w.fk_query[i] \o <<")">>],
            <<"and">>)

(* __fkey_where on what __what returned (w) *)
fkey_where_of(w, fk_where, where, values) ==
    IF w.fk_fields # <<>>
    THEN [where |-> IF where # <<>> THEN where \o <<"and">> \o fk_where ELSE fk_where,
          values |-> values \o w.fk_values, err |-> w.err]
    ELSE [where |-> where, values |-> values, err |-> w.err]

fkey_where_what(w, where, values) == fkey_where_of(w, fk_where_of(w), where, values)

(* __fkey_where: where and values, extended by the bound foreign keys *)
fkey_where(h, T, r, where, values) == fkey_where_what(what(h, T, r), where, values)

(* the rows the WHERE of an update or a delete designates, w being what
   __what returned *)
DmlMatching_of(h, T, r, w) ==
    {row \in T[h[r].cls] :
        /\ Sat(h, r, row)
        /\ \A i \in DOMAIN w.fk_cols : row[w.fk_cols[i]] = w.fk_values[i]}

DmlMatching(h, T, r) == DmlMatching_of(h, T, r, what(h, T, r))

(***************************************************************************)
(* The terminal operations.  Keyword arguments are a sequence of           *)
(* <<name, value>> in the order of the call.                               *)
(***************************************************************************)
RECURSIVE set_all(_, _)
(* field._set(value) for each keyword argument: [ok, fields] *)
set_all(fields, kwargs) ==
    IF kwargs = <<>> THEN [ok |-> TRUE, fields |-> fields]
    ELSE LET k == kwargs[1][1]
             res == Field_set(fields[k], kwargs[1][2])
         IN IF k \notin DOMAIN fields \/ ~res.ok THEN [ok |-> FALSE, fields |-> fields]
            ELSE set_all([fields EXCEPT ![k] = res.f], Tail(kwargs))

(* a row with the columns of kwargs replaced *)
RECURSIVE Assign(_, _)
Assign(row, kwargs) ==
    IF kwargs = <<>> THEN row
    ELSE Assign([row EXCEPT ![kwargs[1][1]] = kwargs[1][2].elts[1]], Tail(kwargs))

(* the rows of a result restricted to the columns named *)
Project(row, args) == IF args = <<>> THEN row ELSE [c \in Range(args) |-> row[c]]

RECURSIVE Distinct(_)
Distinct(rows) ==
    IF rows = <<>> THEN <<>>
    ELSE LET rest == Distinct(SubSeq(rows, 1, Len(rows) - 1))
         IN IF rows[Len(rows)] \in Range(rest) THEN rest ELSE Append(rest, rows[Len(rows)])

(* the SET clause of __update_args and the values it binds *)
update_what(update_args) ==
    JoinStr([i \in DOMAIN update_args |-> <<"\"", update_args[i][1], "\"", "= %s">>], <<",">>)

update_values(update_args) == [i \in DOMAIN update_args |-> update_args[i][2].elts[1]]

(* the error PostgreSQL answers to the update that leaves T1 *)
update_dberr(h, T, r, args, update_args, T1) ==
    IF ~(/\ TreeValid(h, r, h[r].cls)
         /\ \A i \in DOMAIN update_args :
                update_args[i][1] \in ColSet(h[r].cls) /\ ~update_args[i][2].tuple
         /\ Range(args) \subseteq ColSet(h[r].cls))
    THEN "ProgrammingError"
    ELSE IF (\E i \in DOMAIN update_args : update_args[i][2].elts[1] \notin Vals)
            \/ Cardinality(T1) # Cardinality(T[h[r].cls])
    THEN "IntegrityError" ELSE ""

(* _ho_update from self.__execute on: ex is how __execute ended, post the
   fields after field._set(value) for each of update_args *)
update_done(h, T, r, args, sql, updated, T1, ex, post) ==
    IF ex.exc # ""
    THEN Raised([h EXCEPT ![r].cursor = ex.cursor], T, ex.n, ex.fl, ex.exc, ex.events, sql)
    ELSE IF ~post.ok
    THEN Raised([h EXCEPT ![r].cursor = ex.cursor], [T EXCEPT ![h[r].cls] = T1],
                ex.n, ex.fl, "AssertionError", ex.events, sql)
    ELSE Outcome([h EXCEPT ![r].cursor = ex.cursor, ![r].fields = post.fields],
                 [T EXCEPT ![h[r].cls] = T1], ex.n, ex.fl, "returned", "",
                 IF args # <<>> THEN "rows" ELSE "None",
                 IF args # <<>>
                 THEN [NoVal EXCEPT !.rows = [i \in DOMAIN SetToSeq(updated) |->
                                                Project(SetToSeq(updated)[i], args)]]
                 ELSE NoVal,
                 ex.events, sql)

(* a variant that leaves the fields as they are *)
post_set_skip(fields, update_args) == [ok |-> TRUE, fields |-> fields]

(* the loop that ends _ho_update: field._set(value) for each of update_args *)
post_set(fields, update_args) == set_all(fields, update_args)

(* _ho_update once the statement is built: fw is what __fkey_where returned,
   matched the rows the statement designates *)
update_exec(h, T, n, fl, r, args, update_args, fw, matched) ==
    LET updated == {Assign(row, update_args) : row \in matched}
        T1 == (T[h[r].cls] \ matched) \cup updated
    IN IF fw.err THEN Raised(h, T, n, fl, "IndexError", <<>>, <<>>)
       ELSE update_done(h, T, r, args,
                <<Stmt(add_returning(<<"update", Qrn(h[r].cls), "set">>
                                     \o update_what(update_args) \o fw.where, args),
                       fw.values)>>,
                updated, T1,
                execute(h[r].cursor, n, fl, update_dberr(h, T, r, args, update_args, T1)),
                post_set(h[r].fields, update_args))

(* the statement of _ho_update, w being what __where_args returned *)
update_where(h, T, n, fl, r, args, update_args, w) ==
    update_exec(h, T, n, fl, r, args, update_args,
                fkey_where(h, T, r, <<"where">> \o w.where, update_values(update_args) \o w.values),
                DmlMatching(h, T, r))

(* _ho_update, set_ being what _ho_is_set answered and update_args the
   keyword arguments without the None values *)
update_guard(h, T, n, fl, r, args, update_all, update_args, set_) ==
    IF set_.err THEN Raised(h, T, n, fl, "RecursionError", <<>>, <<>>)
    ELSE IF ~(set_.v \/ update_all) THEN Raised(h, T, n, fl, "RuntimeError", <<>>, <<>>)
    ELSE IF update_args = <<>>
    THEN Outcome(h, T, n, fl, "returned", "", "None", NoVal, <<>>, <<>>)
    ELSE update_where(h, T, n, fl, r, args, update_args, where_args(h, r, "update", <<>>))

(* a variant that keeps every keyword argument *)
drop_nothing(kwargs) == kwargs

(* the keyword arguments whose value is not None *)
drop_none(kwargs) == SelectSeq(kwargs, LAMBDA kv : ~IsNone(kv[2]))

(* _ho_update *)
_ho_update(h, T, n, fl, r, args, update_all, kwargs) ==
    update_guard(h, T, n, fl, r, args, update_all, drop_none(kwargs), _ho_is_set(h, r))

(* _ho_delete from self.__execute on *)
delete_done(h, T, r, args, sql, matched, ex) ==
    IF ex.exc # ""
    THEN Raised([h EXCEPT ![r].cursor = ex.cursor], T, ex.n, ex.fl, ex.exc, ex.events, sql)
    ELSE Outcome([h EXCEPT ![r].cursor = ex.cursor], [T EXCEPT ![h[r].cls] = @ \ matched],
                 ex.n, ex.fl, "returned", "",
                 IF args # <<>> THEN "rows" ELSE "None",
                 IF args # <<>>
                 THEN [NoVal EXCEPT !.rows = [i \in DOMAIN SetToSeq(matched) |->
                                                Project(SetToSeq(matched)[i], args)]]
                 ELSE NoVal,
                 ex.events, sql)

(* _ho_delete once the statement is built *)
delete_exec(h, T, n, fl, r, args, q, fw, matched) ==
    IF q.err THEN Raised(h, T, n, fl, "RecursionError", <<>>, <<>>)
    ELSE IF fw.err THEN Raised(h, T, n, fl, "IndexError", <<>>, <<>>)
    ELSE delete_done(h, T, r, args,
            <<Stmt(add_returning(<<"delete from", Qrn(h[r].cls)>>
                                 \o (IF fw.where # <<>> THEN <<"where">> \o fw.where ELSE <<>>),
                                 args),
                   fw.values)>>,
            matched,
            execute(h[r].cursor, n, fl,
                    IF TreeValid(h, r, h[r].cls) /\ Range(args) \subseteq ColSet(h[r].cls)
                    THEN "" ELSE "ProgrammingError"))

(* the statement of _ho_delete: q is what __get_query returned (its values
   are the ones bound), w what __where_args returned *)
delete_where(h, T, n, fl, r, args, q, w) ==
    delete_exec(h, T, n, fl, r, args, q, fkey_where(h, T, r, w.where, q.values),
                DmlMatching(h, T, r))

delete_guard(h, T, n, fl, r, args, delete_all, set_) ==
    IF set_.err THEN Raised(h, T, n, fl, "RecursionError", <<>>, <<>>)
    ELSE IF ~(set_.v \/ delete_all) THEN Raised(h, T, n, fl, "RuntimeError", <<>>, <<>>)
    ELSE delete_where(h, T, n, fl, r, args, get_query(h, r, <<>>),
                      where_args(h, r, "delete", <<>>))

(* _ho_delete *)
_ho_delete(h, T, n, fl, r, args, delete_all) ==
    delete_guard(h, T, n, fl, r, args, delete_all, _ho_is_set(h, r))

(* the names of kwargs that are no column of the class, kwk_.difference(...),
   in the order of kwargs *)
unknown_keys(cls, kwargs) ==
    LET bad == SelectSeq(kwargs, LAMBDA kv : kv[1] \notin ColSet(cls))
    IN [i \in DOMAIN bad |-> bad[i][1]]

(* a variant of __init__ that sets the columns it knows and passes over the
   other keyword arguments *)
__init__lenient(id_, n, cls, kwargs) ==
    LET base == [cls |-> cls,
                 fields |-> [c \in ColSet(cls) |-> FieldInit],
                 join_to |-> <<>>,
                 is_singleton |-> FALSE,
                 only |-> FALSE,
                 neg |-> FALSE,
                 op |-> "", left |-> id_, right |-> 0,
                 select_params |-> NoParams,
                 id_cast |-> 0,
                 attrs |-> {},
                 frozen |-> TRUE,
                 iter |-> NoIter,
                 cursor |-> n + 1]
        res == set_all(base.fields,
                       drop_none(SelectSeq(kwargs, LAMBDA kv : kv[1] \in ColSet(cls))))
    IN [exc |-> IF ~res.ok THEN "AssertionError" ELSE "",
        msg |-> <<>>,
        rel |-> [base EXCEPT !.fields = res.fields],
        n |-> n + 1]

(* __init__: the new relation (its id is id_), [exc, msg, rel, n]; the cursor
   is taken before the keyword arguments are looked at, and msg is what
   UnknownAttributeError is raised with. *)
__init__(id_, n, cls, kwargs) ==
    LET base == [cls |-> cls,
                 fields |-> [c \in ColSet(cls) |-> FieldInit],
                 join_to |-> <<>>,
                 is_singleton |-> FALSE,
                 only |-> FALSE,
                 neg |-> FALSE,
                 op |-> "", left |-> id_, right |-> 0,
                 select_params |-> NoParams,
                 id_cast |-> 0,
                 attrs |-> {},
                 frozen |-> TRUE,
                 iter |-> NoIter,
                 cursor |-> n + 1]
        unknown == \E i \in DOMAIN kwargs : kwargs[i][1] \notin ColSet(cls)
        res == set_all(base.fields, drop_none(kwargs))
    IN [exc |-> IF unknown THEN "UnknownAttributeError"
                ELSE IF ~res.ok THEN "AssertionError" ELSE "",
        msg |-> IF unknown THEN unknown_keys(cls, kwargs) ELSE <<>>,
        rel |-> [base EXCEPT !.fields = res.fields],
        n |-> n + 1]

(* the rows a select yields: distinct, then offset and limit *)
SelectRows(h, T, r, args) ==
    LET p == h[r].select_params
        all == SetToSeq(Matching(h, T, r))
        proj == [i \in DOMAIN all |-> Project(all[i], args)]
        d == IF p.distinct # PyNone THEN Distinct(proj) ELSE proj
        off == IF p.offset # PyNone THEN NatOf(p.offset) ELSE 0
        rest == SubSeq(d, off + 1, Len(d))
    IN IF p.limit # PyNone /\ NatOf(p.limit) < Len(rest)
       THEN SubSeq(rest, 1, NatOf(p.limit)) ELSE rest

(* the error PostgreSQL answers to a select *)
SelectError(h, r, args) ==
    LET p == h[r].select_params
    IN IF /\ QueryValid(h, r)
          /\ Range(args) \subseteq ColSet(h[r].cls)
          /\ p.order_by \in ColSet(h[r].cls) \cup {PyNone}
          /\ p.limit # PyNone => NatOf(p.limit) >= 0
          /\ p.offset # PyNone => NatOf(p.offset) >= 0
       THEN "" ELSE "ProgrammingError"

(* a statement executed for its result: ps is the statement ([text, values,
   err]), ex how __execute ended, ret and val what is returned *)
query_done(h, T, n, fl, r, ps, ex, ret, val) ==
    IF ps.err THEN Raised(h, T, n, fl, "RecursionError", <<>>, <<>>)
    ELSE IF ex.exc # ""
    THEN Raised([h EXCEPT ![r].cursor = ex.cursor], T, ex.n, ex.fl, ex.exc, ex.events,
                <<Stmt(ps.text, ps.values)>>)
    ELSE Outcome([h EXCEPT ![r].cursor = ex.cursor], T, ex.n, ex.fl, "returned", "", ret, val,
                 ex.events, <<Stmt(ps.text, ps.values)>>)

(* _ho_select, iterated to its end *)
_ho_select(h, T, n, fl, r, args) ==
    query_done(h, T, n, fl, r, _ho_prep_select(h, r, args),
               execute(h[r].cursor, n, fl, SelectError(h, r, args)),
               "rows", [NoVal EXCEPT !.rows = SelectRows(h, T, r, args)])

(* the error PostgreSQL answers to a count *)
CountError(h, r) == IF QueryValid(h, r) THEN "" ELSE "ProgrammingError"

(* __len__ *)
__len__(h, T, n, fl, r) ==
    query_done(h, T, n, fl, r, count_query(h, r, FALSE),
               execute(h[r].cursor, n, fl, CountError(h, r)),
               "int", [NoVal EXCEPT !.count = Cardinality(Matching(h, T, r))])

(* the test of _ho_is_empty on the count fetched *)
is_empty_result(count) == count # 1

(* _ho_is_empty *)
_ho_is_empty(h, T, n, fl, r) ==
    query_done(h, T, n, fl, r, count_query(h, r, TRUE),
               execute(h[r].cursor, n, fl, CountError(h, r)),
               "bool", [NoVal EXCEPT !.flag = is_empty_result(Cardinality(Matching(h, T, r)))])

(* the row an insert stores: the value of each column, the last one given *)
insert_row(cls, cols, values) ==
    [c \in ColSet(cls) |->
        values[CHOOSE i \in DOMAIN cols :
                    cols[i] = c /\ \A j \in DOMAIN cols : cols[j] = c => j <= i]]

(* the error PostgreSQL answers to the insert *)
insert_dberr(T, cls, args, cols, values) ==
    IF values = <<>> \/ ~(Range(args) \subseteq ColSet(cls))
       \/ Len(cols) # Cardinality(Range(cols)) THEN "ProgrammingError"
    ELSE IF Range(cols) # ColSet(cls) \/ ~(Range(values) \subseteq Vals)
            \/ insert_row(cls, cols, values) \in T[cls]
    THEN "IntegrityError" ELSE ""

(* _ho_insert from self.__execute on *)
insert_done(h, T, r, args, sql, row, ex) ==
    IF ex.exc # ""
    THEN Raised([h EXCEPT ![r].cursor = ex.cursor], T, ex.n, ex.fl, ex.exc, ex.events, sql)
    ELSE Outcome([h EXCEPT ![r].cursor = ex.cursor], [T EXCEPT ![h[r].cls] = @ \cup {row}],
                 ex.n, ex.fl, "returned", "", "row",
                 [NoVal EXCEPT !.rows = <<Project(row, args)>>], ex.events, sql)

(* _ho_insert, w being what __what returned *)
insert_what(h, T, n, fl, r, args, w) ==
    LET cols == get_set_fields(h[r]) \o w.fk_cols
        values == w.values \o w.fk_values
    IN IF w.err THEN Raised(h, T, n, fl, "IndexError", <<>>, <<>>)
       ELSE insert_done(h, T, r, args,
                <<Stmt(add_returning(
                          <<"insert into", Qrn(h[r].cls), "(">>
                          \o JoinStr(w.fields_names \o w.fk_fields, <<",">>)
                          \o <<")", "values", "(">>
                          \o JoinStr([i \in DOMAIN w.values |-> <<"%s">>] \o w.fk_query, <<",">>)
                          \o <<")">>,
                          IF args # <<>> THEN args ELSE <<"*">>),
                       values)>>,
                insert_row(h[r].cls, cols, values),
                execute(h[r].cursor, n, fl, insert_dberr(T, h[r].cls, args, cols, values)))

(* _ho_insert *)
_ho_insert(h, T, n, fl, r, args) == insert_what(h, T, n, fl, r, args, what(h, T, r))

(* the keyword arguments a row gives to the constructor *)
RowKwargs(cls, row) ==
    LET cs == SelectSeq(Cols(cls), LAMBDA c : c \in DOMAIN row)
    IN [i \in DOMAIN cs |-> <<cs[i], Scalar(row[cs[i]])>>]

(* _ho_get from the row on: s is how the select ended, new the relation
   self(row) builds *)
get_new(T, c, s, id_, new) ==
    IF new.exc # ""
    THEN Raised(s.h, T, new.n, s.fl, new.exc, c.events \o s.events, c.sql \o s.sql)
    ELSE Outcome(Append(s.h, [new.rel EXCEPT !.is_singleton = TRUE]), T, new.n, s.fl,
                 "returned", "", "obj",
                 [NoVal EXCEPT !.obj = id_, !.rows = <<s.rows[1]>>],
                 c.events \o s.events, c.sql \o s.sql)

(* _ho_get from next(self._ho_select(args)) on *)
get_selected(T, cls, c, s) ==
    IF s.status = "raised"
    THEN Raised(s.h, T, s.n, s.fl, s.exc, c.events \o s.events, c.sql \o s.sql)
    ELSE IF s.rows = <<>>
    THEN Raised(s.h, T, s.n, s.fl, "StopIteration", c.events \o s.events, c.sql \o s.sql)
    ELSE get_new(T, c, s, Len(s.h) + 1,
                 __init__(Len(s.h) + 1, s.n, cls, RowKwargs(cls, s.rows[1])))

(* the test of _ho_get on the count *)
get_expected_one(count) == count = 1

(* ExpectedOneError: the message, the repr of the relation left out *)
ExpectedOneError(count) ==
    <<"Expected 1, got", ToString(count), IF count = 0 THEN "tuple" ELSE "tuples">>

(* _ho_get from len(self) on: c is how the count ended *)
get_counted(T, r, args, c) ==
    IF c.status = "raised" THEN c
    ELSE IF ~get_expected_one(c.count)
    THEN [Raised(c.h, T, c.n, c.fl, "ExpectedOneError", c.events, c.sql)
            EXCEPT !.msg = ExpectedOneError(c.count)]
    ELSE get_selected(T, c.h[r].cls, c,
                      _ho_select([c.h EXCEPT ![r].is_singleton = TRUE], T, c.n, c.fl, r, args))

(* _ho_get *)
_ho_get(h, T, n, fl, r, args) == get_counted(T, r, args, __len__(h, T, n, fl, r))

(* Person.name, the method of the test package that @singleton decorates:
   it returns the last_name Field of the relation it runs on *)
Person_name(h, T, n, fl, self, events, sql) ==
    Outcome(h, T, n, fl, "returned", "", "field", [NoVal EXCEPT !.obj = self], events, sql)

(* the wrapper of singleton once self._ho_get() has ended as g *)
singleton_got(g) ==
    IF g.status = "raised"
    THEN IF g.exc = "ExpectedOneError" THEN [g EXCEPT !.exc = "NotASingletonError"] ELSE g
    ELSE Person_name(g.h, g.T, g.n, g.fl, g.obj, g.events, g.sql)

(* singleton: the wrapper around Person.name *)
singleton(h, T, n, fl, self) ==
    IF h[self].is_singleton
    THEN Person_name(h, T, n, fl, self, <<>>, <<>>)
    ELSE singleton_got(_ho_get(h, T, n, fl, self, <<>>))

(* a variant that also limits the select to one row *)
_ho_distinct_limit(rel) ==
    [rel EXCEPT !.select_params.distinct = "distinct", !.select_params.limit = "1"]

(* _ho_distinct *)
_ho_distinct(rel) == [rel EXCEPT !.select_params.distinct = "distinct"]

(* _ho_join() without a partner, s being how the select of the rows of
   self._ho_distinct() ended: ref = self() then takes a cursor and is
   dropped on return *)
join_selected(s) == IF s.status = "raised" THEN s ELSE [s EXCEPT !.n = s.n + 1]

_ho_join(h, T, n, fl, r) ==
    join_selected(_ho_select([h EXCEPT ![r] = _ho_distinct(h[r])], T, n, fl, r, <<>>))

(* dict.update on a dict kept as a sequence of <<key, value>> *)
RECURSIVE DictUpdate(_, _)
DictUpdate(d, e) ==
    IF e = <<>> THEN d
    ELSE LET k == e[1][1]
             d1 == IF \E i \in DOMAIN d : d[i][1] = k
                   THEN [i \in DOMAIN d |-> IF d[i][1] = k THEN e[1] ELSE d[i]]
                   ELSE Append(d, e[1])
         IN DictUpdate(d1, Tail(e))

(* __set__op__ from new = self(...) on: c is the relation built, dct_join
   the dict self._ho_join_to after its update *)
set_op_new(h, self, operator, right, id_, c, dct_join) ==
    [exc |-> c.exc, n |-> c.n, new |-> id_,
     h |-> IF c.exc # "" THEN h
           ELSE Append([h EXCEPT ![self].join_to = dct_join],
                       [c.rel EXCEPT
                           !.id_cast = h[self].id_cast,
                           !.left = IF operator # "" THEN self ELSE @,
                           !.op = IF operator # "" THEN operator ELSE @,
                           !.right = IF right # 0 THEN right ELSE @,
                           (* check_fk *)
                           !.join_to = [i \in DOMAIN dct_join |->
                                          <<dct_join[i][1],
                                            IF dct_join[i][2] = self THEN id_
                                            ELSE dct_join[i][2]>>]])]

(* __set__op__: [exc, h, n, new]; the heap returned holds the new relation
   at new, and self as the call leaves it *)
__set__op__(h, n, self, operator, right) ==
    set_op_new(h, self, operator, right, Len(h) + 1,
               __init__(Len(h) + 1, n, h[self].cls, to_dict_val_comp(h[self])),
               IF right # 0 THEN DictUpdate(h[self].join_to, h[right].join_to)
               ELSE h[self].join_to)

(* __neg__ from __set__op__ on *)
neg_of(neg, res) == IF res.exc # "" THEN res ELSE [res EXCEPT !.h[res.new].neg = ~neg]

(* __neg__ *)
__neg__(h, n, self) ==
    neg_of(h[self].neg, __set__op__(h, n, self, h[self].op, h[self].right))

(* __xor__: (self | right) - (self & right), u and i being the two operands *)
xor_sub(u, i) == IF i.exc # "" THEN i ELSE __set__op__(i.h, i.n, u.new, "and not", i.new)

xor_and(self, right, u) ==
    IF u.exc # "" THEN u ELSE xor_sub(u, __set__op__(u.h, u.n, self, "and", right))

(* __xor__ *)
__xor__(h, n, self, right) == xor_and(self, right, __set__op__(h, n, self, "or", right))

(* len(x) == 0 on the relation x = right - self just built: c is how the
   count ended.  x is a temporary no name is bound to: it leaves the heap
   with the call, what the call did to its operands stays. *)
contains_counted(h, c) ==
    [c EXCEPT !.h = SubSeq(c.h, 1, Len(h)),
              !.ret = IF c.status = "returned" THEN "bool" ELSE "None",
              !.flag = c.status = "returned" /\ c.count = 0]

(* __contains__ from x = right - self on *)
contains_sub(h, T, fl, x) ==
    IF x.exc # "" THEN Raised(h, T, x.n, fl, x.exc, <<>>, <<>>)
    ELSE contains_counted(h, __len__(x.h, T, x.n, fl, x.new))

(* __contains__: right in self *)
__contains__(h, T, n, fl, self, right) ==
    contains_sub(h, T, fl, __set__op__(h, n, right, "and not", self))

(* __eq__ once "self in right" and "right in self" have ended as c1 and c2 *)
eq_both(c1, c2) ==
    [c2 EXCEPT !.events = c1.events \o c2.events, !.sql = c1.sql \o c2.sql]

(* __eq__ once "self in right" has ended as c1: the second test is made
   only when the first one answered True *)
eq_first(self, right, c1) ==
    IF c1.status = "raised" \/ ~c1.flag THEN c1
    ELSE eq_both(c1, __contains__(c1.h, c1.T, c1.n, c1.fl, self, right))

(* __eq__ *)
__eq__(h, T, n, fl, self, right) ==
    IF self = right
    THEN Outcome(h, T, n, fl, "returned", "", "bool", [NoVal EXCEPT !.flag = TRUE], <<>>, <<>>)
    ELSE eq_first(self, right, __contains__(h, T, n, fl, right, self))

(* the first next() of the generator _ho_select returns, o being how the
   statement ended with all its rows: the first row is yielded and the others
   stay on the cursor; without a row the generator is exhausted *)
select_first(r, o) ==
    IF o.status = "raised" THEN o
    ELSE IF o.rows = <<>>
    THEN Raised(o.h, o.T, o.n, o.fl, "StopIteration", o.events, o.sql)
    ELSE [o EXCEPT !.rows = <<o.rows[1]>>,
                   !.h[r].iter = [open |-> TRUE, cursor |-> o.h[r].cursor, want |-> o.rows,
                                  got |-> <<o.rows[1]>>, pending |-> Tail(o.rows),
                                  dry |-> FALSE]]

(* a later next() of the generator: "for elt in self.__cursor" fetches the
   next row the cursor holds, whatever statement put it there *)
select_next(h, T, n, fl, r) ==
    IF h[r].iter.dry
    THEN Raised([h EXCEPT ![r].iter = NoIter], T, n, fl, "ProgrammingError", <<>>, <<>>)
    ELSE IF h[r].iter.pending = <<>>
    THEN Raised([h EXCEPT ![r].iter = NoIter], T, n, fl, "StopIteration", <<>>, <<>>)
    ELSE Outcome([h EXCEPT ![r].iter.got = Append(@, h[r].iter.pending[1]),
                           ![r].iter.pending = Tail(@)],
                 T, n, fl, "returned", "", "rows",
                 [NoVal EXCEPT !.rows = <<h[r].iter.pending[1]>>], <<>>, <<>>)

(* cursor.execute: the rows that were pending on a cursor are gone once it
   has executed another statement, whose own rows the operation fetches
   itself (fetchone, fetchall, or the iteration to its end); norows tells a
   statement without RETURNING *)
cursor_executed(h, events, norows) ==
    [x \in DOMAIN h |->
        IF h[x].iter.open
           /\ \E i \in DOMAIN events : events[i].ev = "execute" /\ events[i].cursor = h[x].iter.cursor
        THEN [h[x] EXCEPT !.iter.pending = <<>>, !.iter.dry = norows]
        ELSE h[x]]

(* the setter of _ho_only, for a bool *)
_ho_only(rel, value) == [rel EXCEPT !.only = value]

(* _ho_cast from new = cls(...) on: c is the relation built.  new takes the
   id of self, not its _ho_id, as __id_cast, and the join_to and the set
   operators of self as they are at the call. *)
cast_new(h, self, id_, c) ==
    [exc |-> c.exc, n |-> c.n, new |-> id_,
     h |-> IF c.exc # "" THEN h
           ELSE Append(h, [c.rel EXCEPT !.id_cast = self,
                                        !.join_to = h[self].join_to,
                                        !.op = h[self].op,
                                        !.left = h[self].left,
                                        !.right = h[self].right])]

(* _ho_cast: [exc, h, n, new] *)
_ho_cast(h, n, self, qrn) ==
    cast_new(h, self, Len(h) + 1, __init__(Len(h) + 1, n, qrn, to_dict_val_comp(h[self])))

(* _ho_limit *)
_ho_limit(rel, _limit_) ==
    IF _limit_ \notin {"0", PyNone} THEN [rel EXCEPT !.select_params.limit = _limit_]
    ELSE [rel EXCEPT !.select_params.limit = PyNone]

(* _ho_offset *)
_ho_offset(rel, _offset_) == [rel EXCEPT !.select_params.offset = _offset_]

(* _ho_order_by *)
_ho_order_by(rel, _order_) == [rel EXCEPT !.select_params.order_by = _order_]

(* hasattr(self, key) for the name of a column or of an added attribute *)
hasattr(rel, key) == key \in ColSet(rel.cls) \/ \E p \in rel.attrs : p[1] = key

(* object.__setattr__(self, key, value) for a name that is no column *)
object_setattr(rel, key, value) ==
    [rel EXCEPT !.attrs = {p \in @ : p[1] # key} \cup {<<key, value>>}]

(* a variant of __setattr__ that does not look at __isfrozen *)
__setattr__unfrozen(rel, key, value) ==
    IF key \in ColSet(rel.cls)
    THEN LET res == Field_set(rel.fields[key], value)
         IN [ok |-> res.ok, exc |-> IF res.ok THEN "" ELSE "AssertionError",
             rel |-> [rel EXCEPT !.fields[key] = res.f]]
    ELSE [ok |-> TRUE, exc |-> "", rel |-> object_setattr(rel, key, value)]

(* __setattr__: [ok, exc, rel].  A column holds a Field, which is set in
   place (exc is then the AssertionError of Field.__set__); another name is
   refused when the relation is frozen and does not have it. *)
__setattr__(rel, key, value) ==
    IF rel.frozen /\ ~hasattr(rel, key)
    THEN [ok |-> FALSE, exc |-> "IsFrozenError", rel |-> rel]
    ELSE IF key \in ColSet(rel.cls)
    THEN LET res == Field_set(rel.fields[key], value)
         IN [ok |-> res.ok, exc |-> IF res.ok THEN "" ELSE "AssertionError",
             rel |-> [rel EXCEPT !.fields[key] = res.f]]
    ELSE [ok |-> TRUE, exc |-> "", rel |-> object_setattr(rel, key, value)]

(* _ho_unfreeze *)
_ho_unfreeze(rel) == [rel EXCEPT !.frozen = FALSE]

(* _ho_freeze *)
_ho_freeze(rel) == [rel EXCEPT !.frozen = TRUE]

(* fkey.set(to_) on the foreign key name of relation r *)
FKey_set(h, r, name, to_) ==
    [h EXCEPT ![r].join_to = DictUpdate(@, <<<<<<r, name>>, to_>>>>)]

(***************************************************************************)
(* The state machine.  heap, tables, ncur (cursors handed out by the       *)
(* connection) and faults are the program and its environment; last       *)
(* records the operation just performed, its inputs and its outcome.       *)
(***************************************************************************)
Inputs(all, kwargs, args) == [all |-> all, kwargs |-> kwargs, args |-> args]

NoInputs == Inputs(FALSE, <<>>, <<>>)

Last(op, rcv, other, inp, o) ==
    [op |-> op, rcv |-> rcv, other |-> other, all |-> inp.all, kwargs |-> inp.kwargs, args |-> inp.args,
     status |-> o.status, exc |-> o.exc, ret |-> o.ret, obj |-> o.obj,
     count |-> o.count, flag |-> o.flag, rows |-> o.rows, msg |-> o.msg,
     events |-> o.events, sql |-> o.sql]

(* at most MaxRel relation objects of actor.person, MaxPartners of blog.post *)
InBounds(h) ==
    /\ Cardinality({i \in DOMAIN h : h[i].cls = "person"}) <= MaxRel
    /\ Cardinality({i \in DOMAIN h : h[i].cls = "post"}) <= MaxPartners

TerminalOps == {"insert", "select", "get", "update", "delete", "count", "is_empty", "join"}

(* an operation op of relation r that ends as o *)
Ended(op, r, inp, o) ==
    /\ o.n <= MaxCursors
    /\ InBounds(o.h)
    /\ heap' = o.h
    /\ tables' = o.T
    /\ ncur' = o.n
    /\ faults' = o.fl
    /\ last' = Last(op, r, 0, inp, o)

(* a terminal operation op of relation r that ends as o, having fetched the
   rows of its statements *)
Terminal(op, r, inp, o) ==
    Ended(op, r, inp,
          [o EXCEPT !.h = cursor_executed(o.h, o.events,
                                          op \in {"update", "delete"} /\ inp.args = <<>>)])

(* an operation that touches the heap only; msg is what its exception is
   raised with *)
BuilderMsg(op, r, other, inp, h, n, exc, msg, obj) ==
    /\ n <= MaxCursors
    /\ InBounds(h)
    /\ heap' = h
    /\ ncur' = n
    /\ UNCHANGED <<tables, faults>>
    /\ last' = Last(op, r, other, inp,
                    IF exc # "" THEN [Raised(h, tables, n, faults, exc, <<>>, <<>>)
                                        EXCEPT !.msg = msg]
                    ELSE Outcome(h, tables, n, faults, "returned", "", "obj",
                                 [NoVal EXCEPT !.obj = obj], <<>>, <<>>))

Builder(op, r, other, inp, h, n, exc, obj) ==
    BuilderMsg(op, r, other, inp, h, n, exc, <<>>, obj)

Objs == 1..Len(heap)

\* the constructor call cls(kwargs)
Built(op, r, other, inp, h, c) ==
    BuilderMsg(op, r, other, inp, IF c.exc = "" THEN Append(h, c.rel) ELSE h, c.n, c.exc,
               c.msg, IF c.exc = "" THEN Len(h) + 1 ELSE 0)

New(cls, kwargs) ==
    Built("new", 0, 0, Inputs(FALSE, kwargs, <<>>), heap,
          __init__(Len(heap) + 1, ncur, cls, kwargs))

(* r.key = value *)
Assigned(r, key, value, res) ==
    Builder("setattr", r, 0, Inputs(FALSE, <<<<key, value>>>>, <<>>),
            [heap EXCEPT ![r] = res.rel], ncur,
            res.exc, r)

SetField(r, key, value) == Assigned(r, key, value, __setattr__(heap[r], key, value))

(* r._ho_unfreeze() and r._ho_freeze() *)
Unfreeze(r) ==
    Builder("unfreeze", r, 0, NoInputs, [heap EXCEPT ![r] = _ho_unfreeze(heap[r])], ncur, "", r)

Freeze(r) ==
    Builder("freeze", r, 0, NoInputs, [heap EXCEPT ![r] = _ho_freeze(heap[r])], ncur, "", r)

(* r.<name>.set(to_) *)
FKeySet(r, name, to_) ==
    Builder("fkey_set", r, to_, NoInputs, FKey_set(heap, r, name, to_), ncur, "", r)

(* a & b, a | b, a - b *)
Combined(op, a, b, res) ==
    Builder(op, a, b, NoInputs, res.h, res.n, res.exc, IF res.exc = "" THEN res.new ELSE 0)

SetOp(operator, a, b) == Combined(operator, a, b, __set__op__(heap, ncur, a, operator, b))

(* ~a *)
Neg(a) == Combined("neg", a, 0, __neg__(heap, ncur, a))

(* r._ho_only = value *)
Only(r, value) ==
    Builder("only", r, 0, NoInputs, [heap EXCEPT ![r] = _ho_only(@, value)], ncur, "", r)

(* a._ho_cast(qrn) *)
Cast(a, qrn) ==
    Builder("cast", a, 0, Inputs(FALSE, <<>>, <<qrn>>),
            _ho_cast(heap, ncur, a, qrn).h, _ho_cast(heap, ncur, a, qrn).n,
            _ho_cast(heap, ncur, a, qrn).exc,
            IF _ho_cast(heap, ncur, a, qrn).exc = "" THEN _ho_cast(heap, ncur, a, qrn).new ELSE 0)

(* a ^ b *)
Xor(a, b) == Combined("xor", a, b, __xor__(heap, ncur, a, b))

Limit(r, v) ==
    Builder("limit", r, 0, Inputs(FALSE, <<>>, <<v>>), [heap EXCEPT ![r] = _ho_limit(@, v)], ncur, "", r)

Offset(r, v) ==
    Builder("offset", r, 0, Inputs(FALSE, <<>>, <<v>>), [heap EXCEPT ![r] = _ho_offset(@, v)], ncur, "", r)

OrderBy(r, v) ==
    Builder("order_by", r, 0, Inputs(FALSE, <<>>, <<v>>), [heap EXCEPT ![r] = _ho_order_by(@, v)], ncur, "", r)

DistinctOn(r) ==
    Builder("distinct", r, 0, NoInputs, [heap EXCEPT ![r] = _ho_distinct(@)], ncur, "", r)

Insert(r, args) ==
    /\ \A c \in ColSet(heap[r].cls) :
            heap[r].fields[c].is_set => heap[r].fields[c].value \in Vals \cup {NULL}
    /\ Terminal("insert", r, Inputs(FALSE, <<>>, args),
                _ho_insert(heap, tables, ncur, faults, r, args))

Select(r, args) ==
    Terminal("select", r, Inputs(FALSE, <<>>, args),
             _ho_select(heap, tables, ncur, faults, r, args))

Get(r, args) ==
    Terminal("get", r, Inputs(FALSE, <<>>, args),
             _ho_get(heap, tables, ncur, faults, r, args))

Update(r, args, update_all, kwargs) ==
    Terminal("update", r, Inputs(update_all, kwargs, args),
             _ho_update(heap, tables, ncur, faults, r, args, update_all, kwargs))

Delete(r, args, delete_all) ==
    Terminal("delete", r, Inputs(delete_all, <<>>, args),
             _ho_delete(heap, tables, ncur, faults, r, args, delete_all))

Count(r) ==
    Terminal("count", r, NoInputs, __len__(heap, tables, ncur, faults, r))

IsEmpty(r) ==
    Terminal("is_empty", r, NoInputs, _ho_is_empty(heap, tables, ncur, faults, r))

Join(r) ==
    Terminal("join", r, NoInputs, _ho_join(heap, tables, ncur, faults, r))

(* r.name(), a method decorated with @singleton *)
Name(r) ==
    /\ heap[r].cls = "person"
    /\ Terminal("name", r, NoInputs, singleton(heap, tables, ncur, faults, r))

(* the first next() on the generator r._ho_select(), and a later one *)
IterStart(r) ==
    Ended("iter", r, NoInputs,
          select_first(r, _ho_select(heap, tables, ncur, faults, r, <<>>)))

IterNext(r) ==
    /\ heap[r].iter.open
    /\ Ended("next", r, NoInputs, select_next(heap, tables, ncur, faults, r))

(* a test on two relations that executes statements *)
Compared(op, a, b, o) ==
    /\ o.n <= MaxCursors
    /\ heap' = o.h
    /\ tables' = o.T
    /\ ncur' = o.n
    /\ faults' = o.fl
    /\ last' = Last(op, a, b, NoInputs, o)

(* a in b *)
Contains(a, b) == Compared("in", a, b, __contains__(heap, tables, ncur, faults, b, a))

(* a == b *)
Eq(a, b) == Compared("eq", a, b, __eq__(heap, tables, ncur, faults, a, b))

(***************************************************************************)
(* Initial states and the inputs the callers choose from.                   *)
(***************************************************************************)
Row(cls, x, y) == [c \in ColSet(cls) |-> IF c = Cols(cls)[1] THEN x ELSE y]

InitLast == Last("init", 0, 0, NoInputs,
                 Outcome(<<>>, <<>>, 0, <<>>, "returned", "", "None", NoVal, <<>>, <<>>))

InitWith(personTables, postTables, faultSeqs) ==
    /\ heap = <<>>
    /\ \E p \in personTables, q \in postTables : tables = [person |-> p, post |-> q]
    /\ ncur = 0
    /\ faults \in faultSeqs
    /\ last = InitLast

PersonTables == {{}, {Row("person", "a", "a")}, {Row("person", "a", "a"), Row("person", "a", "b")}}

Init == InitWith(PersonTables, {{}}, {<<>>})

Kw(k, v) == <<k, Scalar(v)>>

NewKwargs == {<<>>, <<Kw("first_name", "a")>>}

UpdateKwargs == {<<>>,
                 <<Kw("first_name", "b")>>,
                 <<Kw("first_name", "b"), Kw("last_name", PyNone)>>,
                 <<Kw("last_name", PyNone)>>}

(***************************************************************************)
(* Spec: the safety barrier of update and delete on actor.person.          *)
(***************************************************************************)
Next ==
    \/ \E kw \in NewKwargs : New("person", kw)
    \/ \E a \in Objs : Neg(a)
    \/ \E a \in Objs, b \in Objs : SetOp("or", a, b)
    \/ \E r \in Objs, update_all \in BOOLEAN :
            Update(r, <<>>, update_all, <<Kw("first_name", "b")>>)
    \/ \E r \in Objs, delete_all \in BOOLEAN : Delete(r, <<>>, delete_all)

Spec == Init /\ [][Next]_vars

(* no field of the relation is set and it has no join partner *)
NothingSet(h, r) ==
    /\ \A c \in ColSet(h[r].cls) : ~h[r].fields[c].is_set
    /\ h[r].join_to = <<>>

(* r is a plain relation: no set operator, not negated *)
Plain(h, r) == h[r].op = "" /\ ~h[r].neg

RECURSIVE Unconstrained(_, _)
(* no field and no partner is constrained anywhere in the tree of r *)
Unconstrained(h, r) ==
    /\ NothingSet(h, r)
    /\ h[r].op # "" =>
          /\ \A c \in {h[r].left, h[r].right} \ {0} : Unconstrained(h, c)

Refused ==
    /\ last'.status = "raised"
    /\ last'.exc = "RuntimeError"
    /\ last'.events = <<>>
    /\ last'.sql = <<>>
    /\ heap' = heap
    /\ tables' = tables

(* C1 as stated: update and delete without the all-rows flag are refused on
   every relation whose tree constrains nothing, set-operator results and
   negations included, and proceed with the flag. *)
C1_AsStated ==
    [][(last'.op \in {"update", "delete"} /\ Unconstrained(heap, last'.rcv))
          => IF last'.all THEN last'.events # <<>> ELSE Refused]_vars

(* C1: on a plain relation (no set operator, not negated) with no field set
   and no join partner, update and delete without the all-rows flag raise,
   execute no statement and leave the relation and the rows unchanged, and
   with the flag they execute; a set-operator result or a negation counts
   as constrained and is never refused. *)
C1_Barrier ==
    [][last'.op \in {"update", "delete"}
          => /\ (Plain(heap, last'.rcv) /\ NothingSet(heap, last'.rcv))
                  => IF last'.all THEN last'.events # <<>> ELSE Refused
             /\ ~Plain(heap, last'.rcv) => last'.events # <<>>]_vars

C1_Witness ==
    /\ last.op = "update"
    /\ ~last.all
    /\ last.exc = "RuntimeError"
    /\ Plain(heap, last.rcv) /\ NothingSet(heap, last.rcv)
    /\ tables["person"] # {}

(***************************************************************************)
(* SpecUpdate: update on actor.person, with keyword arguments that may be  *)
(* None, on plain and negated relations.                                   *)
(***************************************************************************)
NextUpdate ==
    \/ \E kw \in NewKwargs : New("person", kw)
    \/ \E r \in Objs : SetField(r, "first_name", Scalar("a"))
    \/ \E a \in Objs : Neg(a)
    \/ \E r \in Objs, update_all \in BOOLEAN, kw \in UpdateKwargs :
            Update(r, <<>>, update_all, kw)

InitUpdate ==
    InitWith({{Row("person", "a", "a"), Row("person", "b", "b")},
              {Row("person", "a", "a"), Row("person", "a", "b")}}, {{}}, {<<>>})

SpecUpdate == InitUpdate /\ [][NextUpdate]_vars

(* the step is an update that executed its statement and returned *)
UpdateSucceeds == last'.op = "update" /\ last'.status = "returned" /\ last'.events # <<>>

(* the keyword arguments given with a value *)
Given(kwargs) == {i \in DOMAIN kwargs : kwargs[i][2] # Scalar(PyNone)}

(* after the step, field k of the receiver is set with the value given *)
FieldsFollow ==
    /\ \A i \in Given(last'.kwargs) :
            /\ heap'[last'.rcv].fields[last'.kwargs[i][1]].is_set
            /\ heap'[last'.rcv].fields[last'.kwargs[i][1]].value = last'.kwargs[i][2].elts[1]
    /\ \A c \in ColSet(heap[last'.rcv].cls) :
            (\A i \in Given(last'.kwargs) : last'.kwargs[i][1] # c)
                => heap'[last'.rcv].fields[c] = heap[last'.rcv].fields[c]

(* the receiver was constrained on the one column the update names, and
   designates after the step the rows that hold the new value there *)
ConstrainedOnColumn ==
    /\ Len(last'.kwargs) = 1
    /\ Given(last'.kwargs) = {1}
    /\ \A c \in ColSet(heap[last'.rcv].cls) :
            heap[last'.rcv].fields[c].is_set <=> c = last'.kwargs[1][1]
    /\ heap[last'.rcv].join_to = <<>>

DesignatesNewValue ==
    Matching(heap', tables', last'.rcv)
        = {row \in tables'[heap[last'.rcv].cls] :
                row[last'.kwargs[1][1]] = last'.kwargs[1][2].elts[1]}

(* C5 as stated: after a successful update the fields named follow the
   values, the others are unchanged, and any relation constrained on the
   column updated designates the rows that hold the new value. *)
C5_AsStated ==
    [][UpdateSucceeds
          => /\ FieldsFollow
             /\ ConstrainedOnColumn => DesignatesNewValue]_vars

(* the receiver is a negated relation without set operator *)
NegatedLeaf(h, r) == h[r].op = "" /\ h[r].neg

DesignatesOtherValues ==
    Matching(heap', tables', last'.rcv)
        = {row \in tables'[heap[last'.rcv].cls] :
                row[last'.kwargs[1][1]] # last'.kwargs[1][2].elts[1]}

(* C5: after a successful update, every field named with a value other than
   None is set with that value and the other fields keep value, comparator
   and set flag; a plain relation (no set operator, not negated) that was
   constrained on the column updated then designates the rows that hold the
   new value in it, and a negated one the rows that do not. *)
C5_FieldsFollow ==
    [][UpdateSucceeds
          => /\ FieldsFollow
             /\ (ConstrainedOnColumn /\ Plain(heap, last'.rcv)) => DesignatesNewValue
             /\ (ConstrainedOnColumn /\ NegatedLeaf(heap, last'.rcv))
                   => DesignatesOtherValues]_vars

C5_Witness ==
    /\ last.op = "update" /\ last.status = "returned" /\ last.events # <<>>
    /\ last.kwargs = <<Kw("first_name", "b")>>
    /\ Plain(heap, last.rcv)
    /\ heap[last.rcv].fields["first_name"].value = "b"
    /\ Matching(heap, tables, last.rcv) # {}

(* the outcome of the update of the step, had the None values not been given *)
WithoutNone ==
    _ho_update(heap, tables, ncur, faults, last'.rcv, last'.args, last'.all,
               SelectSeq(last'.kwargs, LAMBDA kv : kv[2] # Scalar(PyNone)))

NoKeyRemains == Given(last'.kwargs) = {}

NoOp ==
    /\ last'.status = "returned"
    /\ last'.ret = "None"
    /\ last'.events = <<>>
    /\ last'.sql = <<>>
    /\ heap' = heap
    /\ tables' = tables

NoneDropped ==
    /\ last'.sql = WithoutNone.sql
    /\ last'.status = WithoutNone.status
    /\ heap' = WithoutNone.h
    /\ tables' = WithoutNone.T
    /\ \A i \in DOMAIN last'.sql : PyNone \notin Range(last'.sql[i].values)

(* C6 as stated: None values are dropped before anything is executed, and an
   update left without keys is a no-op that returns None, on any relation. *)
C6_AsStated ==
    [][last'.op = "update"
          => /\ NoneDropped
             /\ NoKeyRemains => NoOp]_vars

(* C6: the None values are dropped before anything is executed: statement,
   parameters, field assignments and rows are those of the same update
   without them; an update left without keys executes nothing, returns None
   and changes nothing when the relation is constrained or update_all is
   True, and is refused like any other update when it is neither. *)
C6_NoneDropped ==
    [][last'.op = "update"
          => /\ NoneDropped
             /\ NoKeyRemains =>
                   IF ~(Plain(heap, last'.rcv) /\ NothingSet(heap, last'.rcv)) \/ last'.all
                   THEN NoOp ELSE Refused]_vars

C6_Witness ==
    /\ last.op = "update" /\ last.status = "returned" /\ last.events # <<>>
    /\ last.kwargs = <<Kw("first_name", "b"), Kw("last_name", PyNone)>>
    /\ Len(last.sql) = 1

(***************************************************************************)
(* SpecGet: get() on actor.person, over tables of 0, 1 and 2 rows.         *)
(***************************************************************************)
NextGet ==
    \/ \E kw \in NewKwargs : New("person", kw)
    \/ \E r \in Objs : SetField(r, "last_name", Scalar("b"))
    \/ \E r \in Objs : Offset(r, "1")
    \/ \E r \in Objs : Get(r, <<>>)

SpecGet == Init /\ [][NextGet]_vars

(* the rows the receiver of the step designates before the step *)
Designated == Matching(heap, tables, last'.rcv)

GetReturnsTheRow ==
    /\ last'.status = "returned"
    /\ last'.obj \notin DOMAIN heap
    /\ last'.obj \in DOMAIN heap'
    /\ last'.obj # last'.rcv
    /\ heap'[last'.obj].cls = heap[last'.rcv].cls
    /\ heap'[last'.obj].is_singleton
    /\ \A row \in Designated : \A c \in ColSet(heap[last'.rcv].cls) :
            /\ heap'[last'.obj].fields[c].is_set
            /\ heap'[last'.obj].fields[c].value = row[c]

GetRaisesExpectedOne ==
    /\ last'.status = "raised"
    /\ last'.exc = "ExpectedOneError"
    /\ ToString(Cardinality(Designated)) \in Range(last'.msg)
    /\ Len(heap') = Len(heap)

(* C2: get() raises ExpectedOneError, the count in its message, when the
   relation designates no row or several, and returns a new relation of the
   same class, singleton, set to the values of the row, when it designates
   exactly one. *)
C2_Get ==
    [][last'.op = "get"
          => IF Cardinality(Designated) = 1 THEN GetReturnsTheRow
             ELSE GetRaisesExpectedOne]_vars

(***************************************************************************)
(* SpecAlg: the set operators and negation, on relations of actor.person   *)
(* and blog.post bound through their foreign keys.                         *)
(***************************************************************************)
SetOperators == {"and", "or", "and not"}

NextAlg ==
    \/ \E cls \in Classes : New(cls, <<>>)
    \/ \E r \in Objs : \E name \in FKeyNames(heap[r].cls), to_ \in Objs :
            heap[to_].cls = FKeyTarget(name) /\ FKeySet(r, name, to_)
    \/ \E a \in Objs : Neg(a)
    \/ \E operator \in SetOperators, a \in Objs, b \in Objs :
            heap[a].cls = heap[b].cls /\ SetOp(operator, a, b)

InitAlg == InitWith({{Row("person", "a", "a")}}, {{Row("post", "a", "a")}}, {<<>>})

SpecAlg == InitAlg /\ [][NextAlg]_vars

(* what the builder holds of a relation: fields and comparators, join_to,
   the negated flag, the set-operator node *)
Operand(rel) ==
    [fields |-> rel.fields, join_to |-> rel.join_to, neg |-> rel.neg,
     op |-> rel.op, left |-> rel.left, right |-> rel.right]

(* C3: a set operator or a negation returns a new object and leaves the
   fields, comparators, join_to, negated flag and set-operator node of
   every relation that existed, its operands among them, as they were. *)
C3_OperandsUntouched ==
    [][(last'.op \in SetOperators \cup {"neg"} /\ last'.status = "returned")
          => /\ last'.obj \notin DOMAIN heap
             /\ last'.obj \in DOMAIN heap'
             /\ \A i \in DOMAIN heap : Operand(heap'[i]) = Operand(heap[i])]_vars

(***************************************************************************)
(* SpecTerminal: every terminal operation, on actor.person.                *)
(***************************************************************************)
NextTerminal ==
    \/ \E kw \in {<<>>, <<Kw("first_name", "a"), Kw("last_name", "b")>>} : New("person", kw)
    \/ \E r \in Objs : Insert(r, <<>>)
    \/ \E r \in Objs : Select(r, <<>>)
    \/ \E r \in Objs : Get(r, <<>>)
    \/ \E r \in Objs : Update(r, <<>>, FALSE, <<Kw("first_name", "b")>>)
    \/ \E r \in Objs : Delete(r, <<>>, FALSE)
    \/ \E r \in Objs : Count(r)
    \/ \E r \in Objs : IsEmpty(r)
    \/ \E r \in Objs : Join(r)

InitTerminal ==
    InitWith({{Row("person", "a", "a"), Row("person", "a", "b")}}, {{}}, {<<>>})

SpecTerminal == InitTerminal /\ [][NextTerminal]_vars

(* the builder state of a relation *)
BuilderState(rel) ==
    [fields |-> rel.fields, is_singleton |-> rel.is_singleton,
     select_params |-> rel.select_params, join_to |-> rel.join_to,
     op |-> rel.op, left |-> rel.left, right |-> rel.right]

(* C4 as stated: no terminal operation changes the builder state of its
   receiver. *)
C4_AsStated ==
    [][last'.op \in TerminalOps
          => BuilderState(heap'[last'.rcv]) = BuilderState(heap[last'.rcv])]_vars

(* C4: insert, select, delete, count and is_empty leave the builder state of
   their receiver unchanged; get changes at most its is_singleton flag, which
   it sets; update changes at most the fields it names with a value; join
   changes at most the distinct select parameter, which it sets. *)
C4_Frame ==
    [][last'.op \in TerminalOps
          => LET before == BuilderState(heap[last'.rcv])
                 after == BuilderState(heap'[last'.rcv])
             IN CASE last'.op = "get" ->
                        /\ [after EXCEPT !.is_singleton = before.is_singleton] = before
                        /\ before.is_singleton => after.is_singleton
                        /\ last'.status = "returned" => after.is_singleton
                        /\ last'.exc = "ExpectedOneError" => after = before
                  [] last'.op = "update" ->
                        /\ [after EXCEPT !.fields = before.fields] = before
                        /\ \A c \in DOMAIN before.fields :
                              after.fields[c] # before.fields[c]
                                 => \E i \in Given(last'.kwargs) : last'.kwargs[i][1] = c
                  [] last'.op = "join" ->
                        /\ [after EXCEPT !.select_params.distinct = before.select_params.distinct]
                              = before
                        /\ after.select_params.distinct = "distinct"
                  [] OTHER -> after = before]_vars

C4_Witness ==
    /\ last.op = "get"
    /\ last.status = "returned"
    /\ heap[last.rcv].is_singleton
    /\ last.obj # last.rcv

(* C10: is_empty() answers True exactly when the relation designates no
   row, and False when it designates one row or more. *)
C10_IsEmpty ==
    (last.op = "is_empty" /\ last.status = "returned")
        => (last.flag <=> Matching(heap, tables, last.rcv) = {})

(***************************************************************************)
(* SpecExec: the statements of the terminal operations on a connection     *)
(* that fails: faults holds, from the start, what it does to the attempts. *)
(***************************************************************************)
Faults == {"", "OperationalError", "InterfaceError", "DataError"}

FaultSeqs == UNION {[1..k -> Faults] : k \in 0..MaxFaults}

InitExec == InitWith({{Row("person", "a", "a")}}, {{}}, FaultSeqs)

NextExec ==
    \/ New("person", <<Kw("first_name", "a")>>)
    \/ \E r \in Objs : Select(r, <<>>)
    \/ \E r \in Objs : Count(r)
    \/ \E r \in Objs : Insert(r, <<>>)
    \/ \E r \in Objs : Update(r, <<>>, FALSE, <<Kw("last_name", "b")>>)

SpecExec == InitExec /\ [][NextExec]_vars

(* the operation ended as the attempt did *)
Surfaces(exc) ==
    /\ last.exc = exc
    /\ last.status = IF exc = "" THEN "returned" ELSE "raised"

(* C7: a terminal operation sends its statement once, or twice when the
   first attempt failed with OperationalError or InterfaceError; the second
   attempt comes after one ping and on a cursor just acquired, which the
   relation keeps; the outcome of the last attempt, whatever it is, is the
   outcome of the operation. *)
C7_RetryOnce ==
    (last.op \in TerminalOps /\ last.events # <<>>)
        => LET ev == last.events
           IN /\ Len(last.sql) = 1
              /\ ev[1].ev = "execute"
              /\ IF ev[1].exc \in ConnErrors
                 THEN /\ Len(ev) = 4
                      /\ ev[2].ev = "ping"
                      /\ ev[3].ev = "cursor"
                      /\ ev[3].cursor # ev[1].cursor
                      /\ ev[3].cursor = ncur
                      /\ \A i \in DOMAIN heap :
                            heap[i].cursor = ev[3].cursor <=> i = last.rcv
                      /\ ev[4].ev = "execute"
                      /\ ev[4].cursor = ev[3].cursor
                      /\ Surfaces(ev[4].exc)
                 ELSE /\ Len(ev) = 1
                      /\ Surfaces(ev[1].exc)

C7_Witness ==
    /\ last.op = "select"
    /\ Len(last.events) = 4
    /\ last.events[1].exc = "OperationalError"
    /\ last.events[4].exc = ""
    /\ last.status = "returned"

(* the cursors the statements of the last operation were executed on *)
CursorsUsed(events) == {events[i].cursor : i \in {j \in DOMAIN events : events[j].ev = "execute"}}

(* C8: when a terminal operation has ended no relation holds a cursor, and
   the operation has not executed on a cursor the terminal operation before
   it executed on. *)
C8_OwnCursor ==
    [][last'.op \in TerminalOps
          => /\ \A i \in DOMAIN heap' : heap'[i].cursor = 0
             /\ last.op \in TerminalOps
                   => CursorsUsed(last.events) \cap CursorsUsed(last'.events) = {}]_vars

(***************************************************************************)
(* SpecSQL: the text of the statements, with arguments a caller chooses.   *)
(***************************************************************************)
Evil == "1; drop table actor.person"

NextSQL ==
    \/ \E v \in {"a", Evil} : New("person", <<Kw("first_name", v)>>)
    \/ \E r \in Objs : OrderBy(r, Evil)
    \/ \E r \in Objs : Limit(r, Evil)
    \/ \E r \in Objs, args \in {<<>>, <<Evil>>} : Select(r, args)
    \/ \E r \in Objs : Delete(r, <<Evil>>, FALSE)

InitSQL == InitWith({{Row("person", "a", "a")}}, {{}}, {<<>>})

SpecSQL == InitSQL /\ [][NextSQL]_vars

(* C9: the text of a statement holds no string a caller supplied as a value
   or as an argument of order_by, limit, offset, a column list or a
   returning list: such a string is bound as a parameter. *)
C9_ValuesAreBound ==
    \A i \in DOMAIN last.sql : Evil \notin Range(last.sql[i].text)

(***************************************************************************)
(* SpecContain: containment and equality of relations of actor.person,     *)
(* constrained on a column or through the foreign key to blog.post.        *)
(***************************************************************************)
NextContain ==
    \/ \E kw \in {<<>>, <<Kw("last_name", "a")>>} : New("person", kw)
    \/ New("post", <<>>)
    \/ \E r \in Objs : \E name \in FKeyNames(heap[r].cls), to_ \in Objs :
            /\ heap[r].cls = "person" /\ heap[to_].cls = FKeyTarget(name)
            /\ FKeySet(r, name, to_)
    \/ \E a \in Objs, b \in Objs : heap[a].cls = heap[b].cls /\ Contains(a, b)
    \/ \E a \in Objs, b \in Objs : heap[a].cls = heap[b].cls /\ Eq(a, b)

InitContain ==
    InitWith({{Row("person", "a", "a"), Row("person", "a", "b")}},
             {{Row("post", "a", "a")}}, {<<>>})

SpecContain == InitContain /\ [][NextContain]_vars

(* the rows of the relations compared, as they are when the test is made *)
RowsOf(r) == Matching(heap, tables, r)

(* C11: a in b answers True exactly when every row a designates is a row b
   designates, a == b exactly when a and b designate the same rows, and
   a == a answers True. *)
C11_Containment ==
    [][(last'.op \in {"in", "eq"} /\ last'.status = "returned")
          => /\ last'.op = "in"
                  => (last'.flag <=> RowsOf(last'.rcv) \subseteq RowsOf(last'.other))
             /\ last'.op = "eq"
                  => (last'.flag <=> RowsOf(last'.rcv) = RowsOf(last'.other))
             /\ (last'.op = "eq" /\ last'.rcv = last'.other) => last'.flag]_vars

(***************************************************************************)
(* De Morgan's laws, on the relations of SpecAlg.                          *)
(***************************************************************************)
(* ~(a operator b), built on heap h *)
NegOfOp(h, n, a, operator, b) ==
    LET x == __set__op__(h, n, a, operator, b)
    IN IF x.exc # "" THEN x ELSE __neg__(x.h, x.n, x.new)

(* ~a operator ~b, built on heap h *)
OpOfNegs(h, n, a, operator, b) ==
    LET na == __neg__(h, n, a)
        nb == IF na.exc # "" THEN na ELSE __neg__(na.h, na.n, b)
    IN IF nb.exc # "" THEN nb ELSE __set__op__(nb.h, nb.n, na.new, operator, nb.new)

(* what a select on the relation built answers: its rows, or the error *)
Selects(res) ==
    IF res.exc # "" THEN [exc |-> res.exc, rows |-> {}]
    ELSE IF ~QueryValid(res.h, res.new) THEN [exc |-> "ProgrammingError", rows |-> {}]
    ELSE [exc |-> "", rows |-> Matching(res.h, tables, res.new)]

(* the two sides of De Morgan's law agree, the second being built after the
   first as in one Python expression after the other *)
Dual(a, conn, dual, b) ==
    LET l == NegOfOp(heap, ncur, a, conn, b)
    IN Selects(l) = Selects(OpOfNegs(l.h, l.n, a, dual, b))

(* C12: for all relations a and b of one class, ~(a & b) selects the rows
   ~a | ~b selects, and ~(a | b) the rows ~a & ~b selects. *)
C12_DeMorgan ==
    \A a \in Objs, b \in Objs :
        heap[a].cls = heap[b].cls => Dual(a, "and", "or", b) /\ Dual(a, "or", "and", b)

(***************************************************************************)
(* The symmetric difference, on the relations of SpecContain.              *)
(***************************************************************************)
(* x is (a | b) - (a & b) *)
BuiltAsXor(h, x, a, b) ==
    /\ h[x].op = "and not" /\ ~h[x].neg
    /\ h[h[x].left].op = "or" /\ h[h[x].left].left = a /\ h[h[x].left].right = b
    /\ h[h[x].right].op = "and" /\ h[h[x].right].left = a /\ h[h[x].right].right = b

(* the rows exactly one of a and b designates *)
ExactlyOne(a, b) == (RowsOf(a) \ RowsOf(b)) \cup (RowsOf(b) \ RowsOf(a))

XorSelects(a, b, x) ==
    /\ x.exc = ""
    /\ BuiltAsXor(x.h, x.new, a, b)
    /\ Selects(x) = [exc |-> "", rows |-> ExactlyOne(a, b)]

(* C13: a ^ b is (a | b) - (a & b) and selects the rows exactly one of a and
   b designates; a ^ a selects no row. *)
C13_Xor ==
    \A a \in Objs, b \in Objs :
        heap[a].cls = heap[b].cls => XorSelects(a, b, __xor__(heap, ncur, a, b))

(***************************************************************************)
(* SpecParams: the parameters of the statement of a composition, the       *)
(* operands being constrained on a column and through a foreign key to a   *)
(* post that is constrained too.                                           *)
(***************************************************************************)
NextParams ==
    \/ \E kw \in {<<>>, <<Kw("first_name", "a")>>} : New("person", kw)
    \/ New("post", <<Kw("title", "b")>>)
    \/ \E r \in Objs : \E name \in FKeyNames(heap[r].cls), to_ \in Objs :
            /\ heap[r].cls = "person" /\ heap[to_].cls = FKeyTarget(name)
            /\ FKeySet(r, name, to_)
    \/ \E operator \in SetOperators, a \in Objs, b \in Objs :
            heap[a].cls = heap[b].cls /\ SetOp(operator, a, b)

SpecParams == InitContain /\ [][NextParams]_vars

(* the parameters x's own statement binds for its joins, and for its WHERE *)
JoinParams(h, x) == get_query(h, x, <<>>).sql_values
WhereParams(h, x) == where_args(h, x, "select", <<>>).values

RECURSIVE Ascending(_)
(* the members of a set of numbers, smallest first *)
Ascending(S) ==
    IF S = {} THEN <<>>
    ELSE LET m == CHOOSE x \in S : \A y \in S : x <= y IN <<m>> \o Ascending(S \ {m})

(* the places of the %s placeholders of a text, left to right *)
Placeholders(text) == Ascending({i \in DOMAIN text : text[i] = "%s"})

(* the k-th placeholder of the text stands in a comparison "column comp %s"
   of a field that is set and holds the k-th parameter *)
Aligned(h, text, values) ==
    /\ Len(Placeholders(text)) = Len(values)
    /\ \A k \in DOMAIN values :
          LET i == Placeholders(text)[k]
          IN \E r \in DOMAIN h : /\ text[i - 2] \in ColSet(h[r].cls)
                                 /\ h[r].fields[text[i - 2]].is_set
                                 /\ h[r].fields[text[i - 2]].comp = text[i - 1]
                                 /\ h[r].fields[text[i - 2]].value = values[k]

(* the join_to entries of b whose key a does not carry *)
NotCarried(a, b) ==
    SelectSeq(b, LAMBDA e : \A i \in DOMAIN a : a[i][1] # e[1])

(* the composition just made: its statement, a's and b's parameters *)
Composed == last'.op \in SetOperators /\ last'.status = "returned"
StmtOfZ == _ho_prep_select(heap', last'.obj, <<>>)

(* C14 as stated: the vector is a's join parameters, b's join parameters,
   a's WHERE parameters and b's WHERE parameters, in that order, and the
   k-th placeholder is the one of the k-th parameter. *)
C14_AsStated ==
    [][(Composed /\ ~StmtOfZ.err)
          => /\ StmtOfZ.values = JoinParams(heap, last'.rcv) \o JoinParams(heap, last'.other)
                                  \o WhereParams(heap, last'.rcv) \o WhereParams(heap, last'.other)
             /\ Aligned(heap', StmtOfZ.text, StmtOfZ.values)]_vars

(* C14: the vector is the join parameters of the composition, then a's
   WHERE parameters, then b's; the joins of the composition are the entries
   of a followed by the entries of b that a does not carry; and the k-th
   placeholder is the one of the k-th parameter. *)
C14_Parameters ==
    [][(Composed /\ ~StmtOfZ.err)
          => /\ StmtOfZ.values = JoinParams(heap', last'.obj)
                                  \o WhereParams(heap, last'.rcv) \o WhereParams(heap, last'.other)
             /\ [i \in DOMAIN heap'[last'.obj].join_to |-> heap'[last'.obj].join_to[i][1]]
                  = [i \in DOMAIN (heap[last'.rcv].join_to
                                   \o NotCarried(heap[last'.rcv].join_to, heap[last'.other].join_to))
                       |-> (heap[last'.rcv].join_to
                            \o NotCarried(heap[last'.rcv].join_to, heap[last'.other].join_to))[i][1]]
             /\ Aligned(heap', StmtOfZ.text, StmtOfZ.values)]_vars

(* a composition of two relations whose statement binds join parameters and
   WHERE parameters of both operands *)
C14_Witness ==
    /\ last.op \in SetOperators /\ last.status = "returned" /\ last.rcv # last.other
    /\ JoinParams(heap, last.obj) # <<>>
    /\ WhereParams(heap, last.rcv) # <<>>
    /\ WhereParams(heap, last.other) # <<>>
    /\ ~_ho_prep_select(heap, last.obj, <<>>).err

(***************************************************************************)
(* SpecSingleton: get(), field assignments and a @singleton method on      *)
(* actor.person, over a table of two persons.                              *)
(***************************************************************************)
NextSingleton ==
    \/ \E kw \in {<<>>, <<Kw("last_name", "a")>>} : New("person", kw)
    \/ \E r \in Objs : \E k \in {"first_name", "last_name"} : \E v \in Vals :
           SetField(r, k, Scalar(v))
    \/ \E r \in Objs : Get(r, <<>>)
    \/ \E r \in Objs : Name(r)

SpecSingleton == InitContain /\ [][NextSingleton]_vars

(* a field assignment that went through *)
FieldAssigned == last'.op = "setattr" /\ last'.status = "returned"

(* the decorated method ran without a get(): no statement was executed *)
RanDirectly == last'.op = "name" /\ last'.status = "returned" /\ last'.events = <<>>

(* C15: a field assignment leaves is_singleton false, and the decorated
   method runs directly only on a relation that selects exactly one row,
   since after an assignment it goes through get() again. *)
C15_SingletonReset ==
    [][/\ FieldAssigned => ~heap'[last'.rcv].is_singleton
       /\ RanDirectly => Cardinality(RowsOf(last'.rcv)) = 1]_vars

(***************************************************************************)
(* SpecField: the assignments to the fields of one actor.person relation   *)
(* (scalars, None, NULL, pairs, a pair that starts with None and a longer  *)
(* tuple), and its count.                                                  *)
(***************************************************************************)
FieldInputs ==
    {Scalar("a"), Scalar(PyNone), Scalar(NULL),
     Tuple(<<"=", "a">>), Tuple(<<"!=", "a">>), Tuple(<<"~~", "a">>),
     Tuple(<<"=", PyNone>>), Tuple(<<"!=", NULL>>), Tuple(<<"is not", NULL>>),
     Tuple(<<"=", "b", "c">>), Tuple(<<PyNone, "a">>)}

NextField ==
    \/ Len(heap) = 0 /\ New("person", <<>>)
    \/ \E r \in Objs : \E k \in {"first_name", "last_name"} : \E v \in FieldInputs :
           SetField(r, k, v)
    \/ \E r \in Objs : Count(r)

SpecField == InitContain /\ [][NextField]_vars

(* the closed set of comparators *)
Comparators ==
    {"=", "!=", "<", "<=", ">", ">=", "like", "ilike", "@@", "%", "is", "is not", "in", "any"}

(* the step assigns a value to a field: the column, the value assigned and
   the field before and after it *)
Assigns == last'.op = "setattr"
AssignedKey == last'.kwargs[1][1]
AssignedValue == last'.kwargs[1][2]
FieldBefore == heap[last'.rcv].fields[AssignedKey]
FieldAfter == heap'[last'.rcv].fields[AssignedKey]
IsPair(v) == v.tuple /\ Len(v.elts) = 2

(* the assignment is refused: it raises and the field is as it was *)
Rejected == last'.status = "raised" /\ FieldAfter = FieldBefore

(* every field of every relation after the step *)
AllFieldsAfter == {heap'[r].fields[k] : r \in DOMAIN heap', k \in {"first_name", "last_name"}}

(* C16: assigning None to a field that is set leaves it not set, and the
   relation selects the rows it would select had the field never been
   constrained. *)
C16_NoneUnsets ==
    [][Assigns /\ IsNone(AssignedValue) /\ FieldBefore.is_set
       => /\ ~FieldAfter.is_set
          /\ Matching(heap', tables', last'.rcv)
               = Matching([heap EXCEPT ![last'.rcv].fields[AssignedKey] = FieldInit],
                          tables, last'.rcv)]_vars

(* C17: a pair (comp, val) of an allowed comparator and a non-NULL scalar
   leaves the field set with value val and comparator comp; a bare scalar
   leaves it set with that value and the comparator "=". *)
C17_PairAndScalar ==
    [][Assigns
       => /\ IsPair(AssignedValue) /\ AssignedValue.elts[1] \in Comparators
             /\ AssignedValue.elts[2] \notin {NULL, PyNone}
             => FieldAfter = [FieldBefore EXCEPT !.is_set = TRUE,
                                                 !.value = AssignedValue.elts[2],
                                                 !.comp = AssignedValue.elts[1]]
          /\ ~AssignedValue.tuple /\ AssignedValue.elts[1] \notin {NULL, PyNone}
             => FieldAfter = [FieldBefore EXCEPT !.is_set = TRUE,
                                                 !.value = AssignedValue.elts[1],
                                                 !.comp = "="]]_vars

(* C18: a pair whose value is None and a tuple that is not a pair are
   refused, the field staying as it was; no field that is set holds None. *)
C18_Rejected ==
    [][Assigns
       => /\ AssignedValue.tuple
             /\ (~IsPair(AssignedValue) \/ AssignedValue.elts[2] = PyNone)
             => Rejected
          /\ \A f \in AllFieldsAfter : f.is_set => f.value # PyNone]_vars

(* the tokens that stand as comparators in the statements of the step: those
   right before a placeholder *)
Rendered ==
    UNION {{last'.sql[j].text[i - 1] : i \in {x \in DOMAIN last'.sql[j].text :
                                                 last'.sql[j].text[x] = "%s"}} :
           j \in DOMAIN last'.sql}

(* C19: a pair whose comparator is outside the closed set fails with
   InvalidComparator, the field staying as it was; the comparator of every
   field is in the closed set, and so is every comparator rendered. *)
C19_ClosedSet ==
    [][/\ Assigns /\ IsPair(AssignedValue) /\ AssignedValue.elts[1] \notin Comparators
          => Rejected /\ last'.exc = "InvalidComparator"
       /\ \A f \in AllFieldsAfter : f.comp \in Comparators
       /\ Rendered \subseteq Comparators]_vars

(* C20: the comparator of a field is "is" or "is not" exactly when its value
   is NULL: NULL alone gives "is", a pair of another comparator and NULL is
   refused, and no other value goes with "is" or "is not". *)
C20_NullComparator ==
    [][/\ Assigns /\ AssignedValue = Scalar(NULL)
          => FieldAfter.is_set /\ FieldAfter.value = NULL /\ FieldAfter.comp = "is"
       /\ Assigns /\ IsPair(AssignedValue) /\ AssignedValue.elts[2] = NULL
          /\ AssignedValue.elts[1] \notin {"is", "is not"}
          => Rejected
       /\ \A f \in AllFieldsAfter : f.comp \in {"is", "is not"} <=> f.value = NULL]_vars

(* C21: a field is reported as set exactly when it holds a value other than
   None, the unset marker; a relation constructed without keyword arguments
   has no field set. *)
C21_SetIffValue ==
    /\ \A r \in DOMAIN heap : \A k \in ColSet(heap[r].cls) :
           heap[r].fields[k].is_set <=> heap[r].fields[k].value # PyNone
    /\ last.op = "new" /\ last.status = "returned" /\ last.kwargs = <<>>
       => \A k \in ColSet(heap[last.obj].cls) : ~heap[last.obj].fields[k].is_set

(***************************************************************************)
(* SpecInit: the constructor of actor.person with keyword arguments that   *)
(* are columns or not, and whose values are scalars, None or a tuple that  *)
(* Field refuses; then assignments and counts.                             *)
(***************************************************************************)
InitKwargs ==
    {<<>>,
     <<Kw("first_name", "a")>>,
     <<Kw("first_name", PyNone)>>,
     <<Kw("last_name", "b"), Kw("first_name", PyNone)>>,
     <<Kw("lost_name", "a")>>,
     <<Kw("first_name", "a"), Kw("lost_name", PyNone), Kw("name", "b")>>,
     <<<<"first_name", Tuple(<<"=", "b", "c">>)>>, Kw("lost_name", "a")>>}

NextInit ==
    \/ \E kw \in InitKwargs : New("person", kw)
    \/ \E r \in Objs : \E v \in Vals : SetField(r, "last_name", Scalar(v))
    \/ \E r \in Objs : Count(r)

SpecInit == InitContain /\ [][NextInit]_vars

(* the step constructs a relation from the keyword arguments last'.kwargs *)
Constructs == last'.op = "new"
NotColumns == {last'.kwargs[i][1] : i \in DOMAIN last'.kwargs} \ ColSet("person")
GivenNone == {last'.kwargs[i][1] : i \in {j \in DOMAIN last'.kwargs : IsNone(last'.kwargs[j][2])}}

(* C22: a keyword argument that is no column makes the constructor fail with
   UnknownAttributeError raised with the unknown names, and no relation is
   left constrained by the call; the columns given None are not set in the
   relation constructed. *)
C22_UnknownAttribute ==
    [][Constructs
       => /\ NotColumns # {}
             => /\ last'.status = "raised"
                /\ last'.exc = "UnknownAttributeError"
                /\ Range(last'.msg) = NotColumns
                /\ heap' = heap
          /\ NotColumns = {} /\ last'.status = "returned"
             => \A k \in GivenNone : ~heap'[last'.obj].fields[k].is_set]_vars

(* a constructor call that names a column, with a value, and two names that
   are no columns has failed *)
C22_Witness ==
    /\ last.op = "new"
    /\ last.exc = "UnknownAttributeError"
    /\ last.kwargs = <<Kw("first_name", "a"), Kw("lost_name", PyNone), Kw("name", "b")>>
    /\ Len(heap) > 0

(***************************************************************************)
(* SpecFrozen: assignments to a column and to a name that is no column of  *)
(* actor.person relations, which are unfrozen and frozen again.            *)
(***************************************************************************)
NextFrozen ==
    \/ New("person", <<>>)
    \/ \E r \in Objs : \E k \in {"first_name", "nickname"} : \E v \in Vals :
           SetField(r, k, Scalar(v))
    \/ \E r \in Objs : Unfreeze(r)
    \/ \E r \in Objs : Freeze(r)

SpecFrozen == InitContain /\ [][NextFrozen]_vars

(* the relation of the step has the attribute assigned before the step *)
HasIt == AssignedKey \in ColSet(heap[last'.rcv].cls) \cup {p[1] : p \in heap[last'.rcv].attrs}

(* C23: a relation is frozen once constructed; while it is frozen a name it
   does not have is refused with IsFrozenError and nothing is added; a
   column is set in place, its Field taking the value; a new name is added
   only between _ho_unfreeze and the next _ho_freeze. *)
C23_Frozen ==
    [][/\ last'.op = "new" /\ last'.status = "returned" => heap'[last'.obj].frozen
       /\ Assigns /\ ~HasIt /\ heap[last'.rcv].frozen
          => last'.status = "raised" /\ last'.exc = "IsFrozenError" /\ heap' = heap
       /\ Assigns /\ ~HasIt /\ ~heap[last'.rcv].frozen
          => /\ last'.status = "returned"
             /\ <<AssignedKey, AssignedValue>> \in heap'[last'.rcv].attrs
       /\ Assigns /\ AssignedKey \in ColSet(heap[last'.rcv].cls)
          => heap' = [heap EXCEPT ![last'.rcv].fields[AssignedKey] =
                         [@ EXCEPT !.is_set = TRUE, !.value = AssignedValue.elts[1],
                                   !.comp = "="]]
       /\ \A r \in DOMAIN heap :
             /\ heap'[r].frozen # heap[r].frozen
                => last'.rcv = r /\ last'.op \in {"unfreeze", "freeze"}
             /\ last'.rcv = r /\ last'.op = "unfreeze" => ~heap'[r].frozen
             /\ last'.rcv = r /\ last'.op = "freeze" => heap'[r].frozen]_vars

(* a frozen relation has refused a name it does not have, while another was
   given that name between _ho_unfreeze and _ho_freeze *)
C23_Witness ==
    /\ last.op = "setattr" /\ last.exc = "IsFrozenError"
    /\ heap[last.rcv].frozen
    /\ \E r \in DOMAIN heap : heap[r].frozen /\ heap[r].attrs # {}

(***************************************************************************)
(* SpecLimit: limit(0), limit(1), limit(2) and select on actor.person,     *)
(* over a table of two persons.                                            *)
(***************************************************************************)
NextLimit ==
    \/ \E kw \in NewKwargs : New("person", kw)
    \/ \E r \in Objs : \E v \in {"0", "1", "2"} : Limit(r, v)
    \/ \E r \in Objs : Select(r, <<>>)

SpecLimit == InitContain /\ [][NextLimit]_vars

(* the statement of the next select of the relation of the step, and the
   rows it yields *)
NextSelect == _ho_prep_select(heap', last'.rcv, <<>>)
NextSelectRows == SelectRows(heap', tables', last'.rcv, <<>>)

(* C24: after limit(n), n >= 0, the next select carries "limit n" and yields
   at most n rows, whatever limits were given before; a select yields no
   more rows than the limit of its relation. *)
C24_Limit ==
    [][/\ last'.op = "limit"
          => /\ \E i \in DOMAIN NextSelect.text :
                   /\ NextSelect.text[i] = "limit"
                   /\ i < Len(NextSelect.text)
                   /\ NextSelect.text[i + 1] = last'.args[1]
             /\ Len(NextSelectRows) <= NatOf(last'.args[1])
       /\ last'.op = "select" /\ last'.status = "returned"
          /\ heap[last'.rcv].select_params.limit # PyNone
          => Len(last'.rows) <= NatOf(heap[last'.rcv].select_params.limit)]_vars

(***************************************************************************)
(* SpecJoin: persons and a post joined to one another by their foreign     *)
(* keys, in chains and in cycles, and counted.                             *)
(***************************************************************************)
NextJoin ==
    \/ \E cls \in Classes : New(cls, <<>>)
    \/ \E r \in Objs : \E name \in FKeyNames(heap[r].cls), to_ \in Objs :
            heap[to_].cls = FKeyTarget(name) /\ FKeySet(r, name, to_)
    \/ \E r \in Objs : Count(r)

SpecJoin == InitContain /\ [][NextJoin]_vars

(* the edges of the join_to graph: <<relation, fkey, partner>> *)
JoinEdges ==
    UNION {{<<r, e[1], e[2]>> : e \in Range(heap[r].join_to)} : r \in DOMAIN heap}

(* the JOIN fragments of the statement synthesized for relation r *)
JoinFragments(r) ==
    {i \in DOMAIN get_query(heap, r, <<>>).from : get_query(heap, r, <<>>).from[i] = "join"}

(* C25: the synthesis of the joins ends for every relation, whatever the
   join_to graph it starts from, with at most one JOIN fragment per edge of
   the graph; a count never ends in a RecursionError. *)
C25_JoinTerminates ==
    /\ \A r \in DOMAIN heap :
          /\ ~get_query(heap, r, <<>>).err
          /\ Cardinality(JoinFragments(r)) <= Cardinality(JoinEdges)
    /\ last.op = "count" => last.exc # "RecursionError"

(***************************************************************************)
(* SpecCast: relations of actor.person, their casts, the casts of their    *)
(* casts, and the set operators and the negation applied to them.          *)
(***************************************************************************)
NextCast ==
    \/ \E kw \in NewKwargs : New("person", kw)
    \/ \E a \in Objs : \E qrn \in Classes : Cast(a, qrn)
    \/ \E a \in Objs : Neg(a)
    \/ \E a \in Objs, b \in Objs : heap[a].cls = heap[b].cls /\ SetOp("and", a, b)

SpecCast == InitContain /\ [][NextCast]_vars

(* C26: the relation a cast returns has the _ho_id of the relation cast, be
   it a cast itself; a relation that any other operation returns has a
   _ho_id that no other relation has. *)
C26_AliasId ==
    [][\A new \in DOMAIN heap' \ DOMAIN heap :
          IF last'.op = "cast"
          THEN _ho_id(heap', new) = _ho_id(heap, last'.rcv)
          ELSE \A x \in DOMAIN heap : _ho_id(heap', x) # _ho_id(heap', new)]_vars

(***************************************************************************)
(* SpecNeg: relations of actor.person, constrained or not, combined by     *)
(* the set operators and negated, over a table of two persons.             *)
(***************************************************************************)
NextNeg ==
    \/ \E kw \in NewKwargs : New("person", kw)
    \/ \E a \in Objs : Neg(a)
    \/ \E operator \in SetOperators, a \in Objs, b \in Objs : SetOp(operator, a, b)

SpecNeg == InitContain /\ [][NextNeg]_vars

(* ~~a, built on the heap *)
NegNeg(a) ==
    LET na == __neg__(heap, ncur, a)
    IN IF na.exc # "" THEN na ELSE __neg__(na.h, na.n, na.new)

(* C27: ~~a selects the rows a selects, for every relation a, plain or the
   result of a set operator. *)
C27_DoubleNegation ==
    \A a \in Objs :
        Selects(NegNeg(a)) = Selects([exc |-> "", h |-> heap, new |-> a])

(***************************************************************************)
(* SpecIter: a select of actor.person that is iterated row by row, with    *)
(* other terminal operations of the same relation between two fetches,     *)
(* over a table of two persons.                                            *)
(***************************************************************************)
NextIter ==
    \/ \E kw \in NewKwargs : New("person", kw)
    \/ \E r \in Objs : IterStart(r)
    \/ \E r \in Objs : IterNext(r)
    \/ \E r \in Objs : Count(r)
    \/ \E r \in Objs : IsEmpty(r)
    \/ \E r \in Objs : Get(r, <<>>)
    \/ \E r \in Objs : Select(r, <<>>)
    \/ \E r \in Objs : Update(r, <<>>, TRUE, <<Kw("first_name", "a")>>)

SpecIter == InitContain /\ [][NextIter]_vars

(* the iteration of the step, as it is before the step *)
Iteration == heap[last'.rcv].iter

(* C28: a fetch of an iteration yields the next row of the result of its
   select, and the iteration ends, without an error, only when it has
   yielded all of them, whatever the relation has executed in between. *)
C28_Iteration ==
    [][last'.op = "next"
       => /\ last'.status = "returned"
             => /\ Len(Iteration.got) < Len(Iteration.want)
                /\ last'.rows = <<Iteration.want[Len(Iteration.got) + 1]>>
          /\ last'.status = "raised"
             => last'.exc = "StopIteration" /\ Iteration.got = Iteration.want]_vars

(***************************************************************************)
(* SpecFrame: relations of actor.person composed by the set operators,     *)
(* and fields assigned after the composition, to the operands and to the   *)
(* results.                                                                *)
(***************************************************************************)
NextFrame ==
    \/ \E kw \in NewKwargs : New("person", kw)
    \/ \E operator \in SetOperators, a \in Objs, b \in Objs : SetOp(operator, a, b)
    \/ \E r \in Objs : \E v \in {Scalar("a"), Scalar("b"), Scalar(PyNone)} :
           SetField(r, "first_name", v)

SpecFrame == InitContain /\ [][NextFrame]_vars

(* C29: the assignment of a field of a relation changes neither the WHERE
   text and the parameters synthesized for another relation, be it composed
   of the one assigned, nor the rows another relation selects, be it an
   operand of the one assigned. *)
C29_CompositionFixed ==
    [][Assigns
       => \A x \in DOMAIN heap \ {last'.rcv} :
             /\ where_args(heap', x, "select", <<>>) = where_args(heap, x, "select", <<>>)
             /\ Matching(heap', tables', x) = Matching(heap, tables, x)]_vars

(***************************************************************************)
(* SpecDml: update, delete and count of relations of actor.person, plain,  *)
(* negated or composed, with _ho_only set or not, over a table of two      *)
(* persons.                                                                *)
(***************************************************************************)
NextDml ==
    \/ New("person", <<Kw("last_name", "a")>>)
    \/ \E r \in Objs : Only(r, TRUE)
    \/ \E a \in Objs : Neg(a)
    \/ \E a \in Objs, b \in Objs : SetOp("or", a, b)
    \/ \E r \in Objs : Delete(r, <<>>, TRUE)
    \/ \E r \in Objs : Update(r, <<>>, TRUE, <<Kw("first_name", "b")>>)
    \/ \E r \in Objs : Count(r)

SpecDml == InitContain /\ [][NextDml]_vars

(* the rows count and select designate for the relation of the step, before
   the step, and its table before and after *)
DesignatedRows == Matching(heap, tables, last'.rcv)
TableBefore == tables[heap[last'.rcv].cls]
TableAfter == tables'[heap[last'.rcv].cls]

(* C30: a delete removes, and an update modifies, the rows that count and
   select designate for the relation and no other; when _ho_only is true
   their statements name the table with ONLY, as the select does, so that
   no row of an inheriting table is touched. *)
C30_SameRows ==
    [][/\ last'.op = "delete" /\ last'.status = "returned"
          => TableAfter = TableBefore \ DesignatedRows
       /\ last'.op = "update" /\ last'.status = "returned" /\ last'.sql # <<>>
          => TableAfter = (TableBefore \ DesignatedRows)
                            \cup {Assign(row, last'.kwargs) : row \in DesignatedRows}
       /\ last'.op \in {"update", "delete", "count"} /\ heap[last'.rcv].only
          => \A i \in DOMAIN last'.sql : "only" \in Range(last'.sql[i].text)]_vars

====
